---------------------------- MODULE Spec2Model ----------------------------
(***************************************************************************)
(* A model of the appstream crate's tree-to-model conversion layer         *)
(* (src/src/xml.rs and the builders, enums and value types it uses).       *)
(*                                                                         *)
(* The converters are pure functions of an xmltree::Element.  They are     *)
(* modelled as operators that return an outcome: Ok(value), Err(error),    *)
(* or Panic (the abnormal termination of an `unwrap()`/`expect()` on an    *)
(* absent value).  The specifications draw the input element from bounded  *)
(* sets of documents and apply the converters to it.                       *)
(***************************************************************************)
EXTENDS Integers, Sequences, FiniteSets, TLC

VARIABLES
    input,       \* the element (or value list) handed to the operation
    pc,          \* "start" | "loop" | "done"
    i,           \* Collection::try_from: index of the next child node
    collection,  \* Collection::try_from: the CollectionBuilder
    calls,       \* indices of the children Component::try_from was called on
    result       \* the outcome of the operation, once pc = "done"

vars == <<input, pc, i, collection, calls, result>>

---------------------------------------------------------------------------
(* Bounds of the model.                                                    *)

MaxChildren == 3        \* children of a generated <component>
MaxNodes == 3           \* child nodes of a generated collection root
MaxRatings == 3         \* length of a generated list of content ratings
MaxSiblings == 3        \* sibling elements fed to a locale-keyed text
MaxComponents == 3      \* components of a generated Collection value
MaxErrors == 2          \* errors of a generated CollectionParseError

---------------------------------------------------------------------------
(* Option and Result values, and abnormal termination.                     *)

None == [some |-> FALSE]
Some(x) == [some |-> TRUE, v |-> x]

Ok(x) == [tag |-> "Ok", val |-> x]
Err(x) == [tag |-> "Err", err |-> x]
Panic == [tag |-> "Panic"]
NoResult == [tag |-> "None"]

IsOk(r) == r.tag = "Ok"
IsErr(r) == r.tag = "Err"
IsPanic(r) == r.tag = "Panic"

\* Option::unwrap / Option::expect: the value, or a panic.
unwrap(o) == IF o.some THEN Ok(o.v) ELSE Panic

\* Option::ok_or_else(|| err)
ok_or_else(o, err) == IF o.some THEN Ok(o.v) ELSE Err(err)

\* `r.and_then(F)` / the `?` operator followed by F: the first outcome that
\* is not Ok is the outcome of the whole expression.
AndThen(r, F(_)) == IF IsOk(r) THEN F(r.val) ELSE r

\* A fallible loop over a sequence: `for x in s { acc = Step(acc, x)? }`.
RECURSIVE TryFold(_, _, _)
TryFold(Step(_, _), acc, s) ==
    IF s = <<>> THEN Ok(acc)
    ELSE LET r == Step(acc, Head(s))
         IN IF IsOk(r) THEN TryFold(Step, r.val, Tail(s)) ELSE r

---------------------------------------------------------------------------
(* The error taxonomy (ParseError).                                        *)

ParseErr(kind, a, b, c) == [kind |-> kind, a |-> a, b |-> b, c |-> c]
UrlParseError(s) == ParseErr("UrlParseError", s, "", "")
InvalidTag(t) == ParseErr("InvalidTag", t, "", "")
MissingTag(t) == ParseErr("MissingTag", t, "", "")
MissingAttribute(a, t) == ParseErr("MissingAttribute", a, t, "")
MissingValue(t) == ParseErr("MissingValue", t, "", "")
InvalidValue(v, a, t) == ParseErr("InvalidValue", v, a, t)

---------------------------------------------------------------------------
(* The generic element tree (xmltree::Element and xmltree::XMLNode).       *)
(* A node is an element or a text run; both are records of one shape.      *)

NoAttrs == <<>>

Elem(name, attributes, children) ==
    [kind |-> "Element", name |-> name, attributes |-> attributes,
     children |-> children, text |-> ""]

TextNode(t) ==
    [kind |-> "Text", name |-> "", attributes |-> NoAttrs,
     children |-> <<>>, text |-> t]

\* An element whose only child is a text run.
Leaf(name, attributes, t) == Elem(name, attributes, <<TextNode(t)>>)

\* XMLNode::as_element
as_element(node) == IF node.kind = "Element" THEN Some(node) ELSE None

\* e.attributes.get(name)
attr(e, name) ==
    IF name \in DOMAIN e.attributes THEN Some(e.attributes[name]) ELSE None

RECURSIVE ConcatText(_)
ConcatText(nodes) ==
    IF nodes = <<>> THEN ""
    ELSE (IF Head(nodes).kind = "Text" THEN Head(nodes).text ELSE "")
         \o ConcatText(Tail(nodes))

\* Element::get_text: the concatenated text runs of the element's children,
\* None when it has no text child.
get_text(e) ==
    IF \E k \in 1..Len(e.children) : e.children[k].kind = "Text"
    THEN Some(ConcatText(e.children))
    ELSE None

\* Element::get_child(name): the first child element of that name.
get_child(e, name) ==
    LET hits == {k \in 1..Len(e.children) :
                    /\ e.children[k].kind = "Element"
                    /\ e.children[k].name = name}
    IN IF hits = {} THEN None
       ELSE Some(e.children[CHOOSE k \in hits : \A j \in hits : k <= j])

---------------------------------------------------------------------------
(* Scalar converters of the external crates, as the converters use them.   *)

\* The texts that url::Url::parse accepts, among the texts of the generated
\* documents; every other text is rejected.
ValidUrls ==
    {"http://www.example.org", "https://example.org/a.png",
     "https://example.org/a.tar.xz"}

\* Url::parse(s): the parsed URL (an empty path is normalised to "/"), or a
\* url::ParseError, which `?` converts into ParseError::UrlParseError.
Url_parse(s) ==
    IF s \in ValidUrls
    THEN Ok([url |-> IF s = "http://www.example.org" THEN s \o "/" ELSE s])
    ELSE Err(UrlParseError(s))

\* The decimal texts of the generated documents: whether each carries a
\* minus sign, the number of bits its magnitude needs, and its canonical
\* spelling (no sign, no leading zeros), which stands for the number itself:
\* the 64-bit values are beyond the model checker's integers.
DecimalTexts ==
    [t \in {"0", "64", "+64", "064", "4294967295", "4294967296",
            "18446744073709551615", "18446744073709551616", "-1"} |->
        CASE t = "0" -> [neg |-> FALSE, bits |-> 0, canon |-> "0"]
          [] t \in {"64", "+64", "064"} ->
                [neg |-> FALSE, bits |-> 7, canon |-> "64"]
          [] t = "4294967295" -> [neg |-> FALSE, bits |-> 32, canon |-> t]
          [] t = "4294967296" -> [neg |-> FALSE, bits |-> 33, canon |-> t]
          [] t = "18446744073709551615" ->
                [neg |-> FALSE, bits |-> 64, canon |-> t]
          [] t = "18446744073709551616" ->
                [neg |-> FALSE, bits |-> 65, canon |-> t]
          [] t = "-1" -> [neg |-> TRUE, bits |-> 1, canon |-> "1"]]

\* str::parse::<uN>(): Some(n) for a decimal spelling of 0 <= n < 2^N (an
\* optional "+" and leading zeros are accepted, a "-" is not), else None.
parse_unsigned(s, width) ==
    IF s \in DOMAIN DecimalTexts
       /\ ~DecimalTexts[s].neg /\ DecimalTexts[s].bits <= width
    THEN Some(DecimalTexts[s].canon)
    ELSE None

---------------------------------------------------------------------------
(* The closed vocabularies (src/src/enums.rs).                             *)

\* <T as FromStr>::from_str for a strum EnumString without a default
\* variant: the variant whose serialised name is `s`, or an error.
EnumFromStr(names, s) == IF s \in names THEN Ok(s) ELSE Err(s)

ArtifactKindNames == {"source", "binary"}
ContentStateNames == {"none", "mild", "moderate", "intense"}
FirmwareKindNames == {"flashed", "runtime"}
ImageKindNames == {"source", "thumbnail"}
ReleaseKindNames == {"stable", "development"}
ReleaseUrgencyNames == {"low", "medium", "high", "critical"}

\* The PascalCase names strum gives the Category variants.
CategoryNames ==
    {"AudioVideo", "Audio", "Video", "Development", "Education", "Game",
     "Graphics", "Network", "Office", "Science", "Settings", "System",
     "Utility", "Building", "Debugger", "Ide", "GuiDesigner", "Profiling",
     "RevisionControl", "Translation", "Calendar", "ContactManagement",
     "Database", "Dictionary", "Chart", "Email", "Finance", "FlowChart",
     "Pda", "ProjectManagement", "Presentation", "Spreadsheet",
     "WordProcessor", "TwoDGraphics", "VectorGraphics", "RasterGraphics",
     "ThreeDGraphics", "Scanning", "Ocr", "Photography", "Publishing",
     "Viewer", "TextTools", "DesktopSettings", "HardwareSettings",
     "Printing", "PackageManager", "Dialup", "InstantMessaging", "Chat",
     "IrcClient", "Feed", "FileTransfer", "HamRadio", "News", "P2p",
     "RemoteAccess", "Telephony", "TelephonyTools", "VideoConference",
     "WebBrowser", "WebDevelopment", "Midi", "Mixer", "Sequencer", "Tuner",
     "Tv", "AudioVideoEditing", "Player", "Recorder", "DiscBurning",
     "ActionGame", "AdventureGame", "ArcadeGame", "BoardGame", "BlocksGame",
     "CardGame", "KidsGame", "LogicGame", "RolePlaying", "Shooter",
     "Simulation", "SportsGame", "StrategyGame", "Art", "Construction",
     "Music", "Languages", "ArtificialIntelligence", "Astronomy", "Biology",
     "Chemistry", "ComputerScience", "DataVisualization", "Economy",
     "Electricity", "Geography", "Geology", "Geoscience", "History",
     "Humanities", "ImageProcessing", "Literature", "Maps", "Math",
     "NumericalAnalysis", "MedicalSoftware", "Physics", "Robotics",
     "Spirituality", "Sports", "ParallelComputing", "Amusement",
     "Archiving", "Compression", "Electronics", "Emulator", "Engineering",
     "FileTools", "FileManager", "TerminalEmulator", "Filesystem",
     "Monitor", "Security", "Accessibility", "Calculator", "Clock",
     "TextEditor", "Documentation", "Adult", "Core", "Kde", "Gnome", "Xfce",
     "Gtk", "Qt", "Motif", "Java", "ConsoleOnly", "Screensaver", "TrayIcon",
     "Applet", "Shell"}

KudoNames ==
    {"AppMenu", "HiDpiIcon", "HighContrast", "ModernToolkit",
     "Notifications", "SearchProvider", "UserDocs"}

\* A variant without payload, and a variant holding a value.
Variant(name) == [variant |-> name, value |-> None]
VariantOf(name, v) == [variant |-> name, value |-> Some(v)]

\* Category::from_str: `#[strum(default)] Unknown(String)` takes every
\* string that names no variant, so the conversion never fails.
Category_from_str(s) ==
    IF s \in CategoryNames THEN Ok(Variant(s)) ELSE Ok(VariantOf("Unknown", s))

\* Kudo::from_str: as Category::from_str.
Kudo_from_str(s) ==
    IF s \in KudoNames THEN Ok(Variant(s)) ELSE Ok(VariantOf("Unknown", s))

\* ComponentKind::from_str
ComponentKind_from_str(c) ==
    CASE c = "runtime" -> Ok("Runtime")
      [] c \in {"console", "console-application"} -> Ok("ConsoleApplication")
      [] c \in {"desktop", "desktop-application"} -> Ok("DesktopApplication")
      [] c = "webapp" -> Ok("WebApplication")
      [] c = "inputmethod" -> Ok("InputMethod")
      [] c = "operating-system" -> Ok("OS")
      [] c = "theme" -> Ok("Theme")
      [] c = "firmware" -> Ok("Firmware")
      [] c = "addon" -> Ok("Addon")
      [] c = "font" -> Ok("Font")
      [] c \in {"icontheme", "icon-theme"} -> Ok("IconTheme")
      [] c = "driver" -> Ok("Driver")
      [] c = "codec" -> Ok("Codec")
      [] c = "localization" -> Ok("Localization")
      [] c \in {"", "generic"} -> Ok("Generic")
      [] OTHER -> Err(InvalidValue(c, "type", "component"))

---------------------------------------------------------------------------
(* Locale-keyed text (src/src/translatable_string.rs).  A BTreeMap is a    *)
(* function whose domain is its key set.                                   *)

DEFAULT_LOCALE == "C"

EmptyMap == <<>>

\* BTreeMap::insert / HashMap::insert: the new value replaces an old one.
MapInsert(m, k, v) == (k :> v) @@ m

\* A faulty add_for_locale: the locale is dropped and every text goes
\* under the default key.
add_for_locale_default_only(self, locale, text) ==
    MapInsert(self, DEFAULT_LOCALE, text)

\* TranslatableString::add_for_locale, MarkupTranslatableString::add_for_locale
add_for_locale(self, locale, text) ==
    MapInsert(self, IF locale.some THEN locale.v ELSE DEFAULT_LOCALE, text)

\* Option<Cow<str>>::unwrap_or_default
unwrap_or_default(o) == IF o.some THEN o.v ELSE ""

\* TranslatableString::add_for_element
add_for_element(self, element) ==
    add_for_locale(self, attr(element, "lang"),
                   unwrap_or_default(get_text(element)))

\* TranslatableString::with_default
with_default(text) == add_for_locale(EmptyMap, None, text)

RECURSIVE element_to_xml_nodes(_)
\* element_to_xml: the children re-serialised, nested tags kept as markup.
element_to_xml_nodes(nodes) ==
    IF nodes = <<>> THEN ""
    ELSE LET c == Head(nodes)
         IN (IF c.kind = "Element"
             THEN "<" \o c.name \o ">" \o element_to_xml_nodes(c.children)
                  \o "</" \o c.name \o ">"
             ELSE c.text)
            \o element_to_xml_nodes(Tail(nodes))

element_to_xml(e) == element_to_xml_nodes(e.children)

\* MarkupTranslatableString::add_for_element
markup_add_for_element(self, element) ==
    add_for_locale(self, attr(element, "lang"), element_to_xml(element))

\* A faulty accumulation: the text goes to the front of the locale's list.
list_add_for_locale_front(self, locale, text) ==
    LET k == IF locale.some THEN locale.v ELSE DEFAULT_LOCALE
    IN IF k \in DOMAIN self
       THEN [self EXCEPT ![k] = <<text>> \o @]
       ELSE (k :> <<text>>) @@ self

\* TranslatableList::add_for_locale: the text is pushed onto the locale's
\* list, which is created when the locale is new.
list_add_for_locale(self, locale, text) ==
    LET k == IF locale.some THEN locale.v ELSE DEFAULT_LOCALE
    IN IF k \in DOMAIN self
       THEN [self EXCEPT ![k] = Append(@, text)]
       ELSE (k :> <<text>>) @@ self

\* TranslatableList::add_for_element
list_add_for_element(self, element) ==
    list_add_for_locale(self, attr(element, "lang"),
                        unwrap_or_default(get_text(element)))

\* is_empty of the three locale-keyed types
is_empty(self) == DOMAIN self = {}

---------------------------------------------------------------------------
(* Entity converters (src/src/xml.rs): TryFrom<&Element> for each type.    *)
(* A converter is a chain of fallible steps; AndThen(step, LAMBDA v : rest) *)
(* is `let v = step?; rest`.                                               *)

\* impl TryFrom<&Element> for AppId
AppId_try_from(e) == unwrap(get_text(e))

\* impl TryFrom<&Element> for License
License_try_from(e) == unwrap(get_text(e))

\* The `type` match of Bundle::try_from, the text in hand.
BundleOfType(e, t, val) ==
    CASE t = "tarball" -> Ok(VariantOf("Tarball", val))
      [] t = "snap" -> Ok(VariantOf("Snap", val))
      [] t = "appimage" -> Ok(VariantOf("AppImage", val))
      [] t = "limba" -> Ok(VariantOf("Limba", val))
      [] t = "flatpak" ->
            AndThen(ok_or_else(attr(e, "sdk"),
                               MissingAttribute("sdk", "bundle")),
                    LAMBDA sdk :
                        Ok(VariantOf("Flatpak",
                                     [runtime |-> attr(e, "runtime"),
                                      sdk |-> sdk, reference |-> val])))
      [] OTHER -> Err(InvalidValue(t, "type", "bundle"))

\* impl TryFrom<&Element> for Bundle
Bundle_try_from(e) ==
    AndThen(unwrap(get_text(e)), LAMBDA val :
    AndThen(ok_or_else(attr(e, "type"), MissingAttribute("type", "bundle")),
            LAMBDA t : BundleOfType(e, t, val)))

ChecksumOfType(t, val) ==
    CASE t = "sha1" -> Ok(VariantOf("Sha1", val))
      [] t = "sha256" -> Ok(VariantOf("Sha256", val))
      [] t = "blake2b" -> Ok(VariantOf("Blake2b", val))
      [] t = "blake2s" -> Ok(VariantOf("Blake2s", val))
      [] OTHER -> Err(InvalidValue(t, "type", "checksum"))

\* impl TryFrom<&Element> for Checksum
Checksum_try_from(e) ==
    AndThen(unwrap(get_text(e)), LAMBDA val :
    AndThen(ok_or_else(attr(e, "type"), MissingAttribute("type", "provide")),
            LAMBDA t : ChecksumOfType(t, val)))

\* `val.parse::<u64>().map_err(|_| InvalidValue(val, kind, "size"))`
SizeOfType(t, val) ==
    CASE t = "download" ->
            AndThen(ok_or_else(parse_unsigned(val, 64),
                               InvalidValue(val, "download", "size")),
                    LAMBDA n : Ok(VariantOf("Download", n)))
      [] t = "installed" ->
            AndThen(ok_or_else(parse_unsigned(val, 64),
                               InvalidValue(val, "installed", "size")),
                    LAMBDA n : Ok(VariantOf("Installed", n)))
      [] OTHER -> Err(InvalidValue(t, "type", "size"))

\* impl TryFrom<&Element> for Size
Size_try_from(e) ==
    AndThen(ok_or_else(get_text(e), MissingValue("size")), LAMBDA val :
    AndThen(ok_or_else(attr(e, "type"), MissingAttribute("type", "size")),
            LAMBDA t : SizeOfType(t, val)))

TranslationOfType(t, val) ==
    CASE t = "gettext" -> Ok(VariantOf("Gettext", val))
      [] t = "qt" -> Ok(VariantOf("Qt", val))
      [] OTHER -> Err(InvalidValue(t, "type", "translation"))

\* impl TryFrom<&Element> for Translation
Translation_try_from(e) ==
    AndThen(ok_or_else(attr(e, "type"),
                       MissingAttribute("type", "translation")),
            LAMBDA t : TranslationOfType(t, unwrap_or_default(get_text(e))))

\* `Launchable::Url(Url::parse(&val)?)`
LaunchableUrl(val) ==
    AndThen(Url_parse(val), LAMBDA u : Ok(VariantOf("Url", u)))

LaunchableOfType(kind, val) ==
    CASE kind = "cockpit-manifest" -> Ok(VariantOf("CockpitManifest", val))
      [] kind = "desktop-id" -> Ok(VariantOf("DesktopId", val))
      [] kind = "service" -> Ok(VariantOf("Service", val))
      [] kind = "url" -> LaunchableUrl(val)
      [] OTHER -> Ok(VariantOf("Unknown", val))

\* `match opt { Some(v) => v, None => default }`
unwrap_or(o, default) == IF o.some THEN o.v ELSE default

\* impl TryFrom<&Element> for Launchable
Launchable_try_from(e) ==
    LaunchableOfType(unwrap_or(attr(e, "type"), "unknown"),
                     unwrap_or(get_text(e), ""))

ProjectUrlKinds ==
    [t \in {"help", "homepage", "donation", "contact", "translate", "faq",
            "bugtracker"} |->
        CASE t = "help" -> "Help"
          [] t = "homepage" -> "Homepage"
          [] t = "donation" -> "Donation"
          [] t = "contact" -> "Contact"
          [] t = "translate" -> "Translate"
          [] t = "faq" -> "Faq"
          [] t = "bugtracker" -> "BugTracker"]

\* The variant a <url>'s `type` selects.
ProjectUrlKind(t) ==
    IF t \in DOMAIN ProjectUrlKinds THEN ProjectUrlKinds[t] ELSE "Unknown"

\* impl TryFrom<&Element> for ProjectUrl
ProjectUrl_try_from(e) ==
    AndThen(ok_or_else(get_text(e), MissingValue("url")), LAMBDA val :
    AndThen(ok_or_else(attr(e, "type"), MissingAttribute("type", "url")),
            LAMBDA t :
    AndThen(Url_parse(val), LAMBDA u : Ok(VariantOf(ProjectUrlKind(t), u)))))

\* Result::map_err(|_| err)
map_err(r, err) == IF IsErr(r) THEN Err(err) ELSE r

\* The `id` values of a <content_attribute>, which name its variants.
ContentAttributeIds ==
    {"violence-cartoon", "violence-fantasy", "violence-bloodshed",
     "violence-sexual", "violence-desecration", "violence-slavery",
     "violence-realistic", "violence-worship", "drugs-alcohol",
     "drugs-narcotics", "drugs-tobacco", "sex-nudity", "sex-themes",
     "sex-homosexuality", "sex-prostitution", "sex-adultery",
     "sex-appearance", "language-profanity", "language-humor",
     "language-discrimination", "social-chat", "social-info",
     "social-audio", "social-location", "social-contacts",
     "money-advertising", "money-purchasing", "money-gambling"}

ContentAttributeOfId(id, state) ==
    IF id \in ContentAttributeIds THEN Ok(VariantOf(id, state))
    ELSE Err(InvalidValue(id, "id", "content-attribute"))

\* impl TryFrom<&Element> for ContentAttribute
ContentAttribute_try_from(e) ==
    AndThen(unwrap(get_text(e)), LAMBDA val :
    AndThen(map_err(EnumFromStr(ContentStateNames, val),
                    InvalidValue(val, "$value", "content-attribute")),
            LAMBDA state :
    AndThen(ok_or_else(attr(e, "id"),
                       MissingAttribute("id", "content-attribute")),
            LAMBDA id : ContentAttributeOfId(id, state))))

\* One turn of the loop over a <content_rating>'s children.
ContentAttributeStep(attributes, child) ==
    AndThen(ok_or_else(as_element(child), InvalidTag("content-attribute")),
            LAMBDA c :
    AndThen(ContentAttribute_try_from(c),
            LAMBDA a : Ok(Append(attributes, a))))

\* The version a <content_rating>'s `type` selects.
ContentRatingVersionOf(t) ==
    IF ~t.some THEN "Unknown"
    ELSE CASE t.v = "oars-1.0" -> "Oars1_0"
           [] t.v = "oars-1.1" -> "Oars1_1"
           [] OTHER -> "Unknown"

\* impl TryFrom<&Element> for ContentRating
ContentRating_try_from(e) ==
    AndThen(TryFold(ContentAttributeStep, <<>>, e.children),
            LAMBDA attributes :
                Ok([version |-> ContentRatingVersionOf(attr(e, "type")),
                    attributes |-> attributes]))

\* Option::map(f), f fallible: absent stays absent.
MapOption(o, F(_)) ==
    IF o.some THEN AndThen(F(o.v), LAMBDA v : Ok(Some(v))) ELSE Ok(None)

\* `w.parse::<u32>().unwrap()`: a panic when w does not spell a u32.
ParseOrPanic(w) == unwrap(parse_unsigned(w, 32))

\* The `width` and `height` of an icon, each parsed and unwrapped.
IconSized(e, variant, path, url) ==
    AndThen(MapOption(attr(e, "width"), ParseOrPanic), LAMBDA width :
    AndThen(MapOption(attr(e, "height"), ParseOrPanic), LAMBDA height :
        Ok(VariantOf(variant, [path |-> path, url |-> url,
                               width |-> width, height |-> height]))))

IconOfType(e, kind, val) ==
    CASE kind = "stock" -> Ok(VariantOf("Stock", val))
      [] kind = "cached" -> IconSized(e, "Cached", Some(val), None)
      [] kind = "remote" ->
            AndThen(Url_parse(val),
                    LAMBDA u : IconSized(e, "Remote", None, Some(u)))
      [] OTHER -> IconSized(e, "Local", Some(val), None)

\* impl TryFrom<&Element> for Icon
Icon_try_from(e) ==
    AndThen(unwrap(get_text(e)),
            LAMBDA val : IconOfType(e, unwrap_or(attr(e, "type"), "local"),
                                    val))

\* `if let Some(w) = e.attributes.get(name) { w.parse::<u32>().map_err(..)? }`
DimensionChecked(e, name, tag) ==
    MapOption(attr(e, name),
              LAMBDA w : ok_or_else(parse_unsigned(w, 32),
                                    InvalidValue(w, name, tag)))

\* The kind of an <image>: its `type`, or `source` when there is none.
ImageKindOf(e) ==
    IF attr(e, "type").some
    THEN map_err(EnumFromStr(ImageKindNames, attr(e, "type").v),
                 InvalidValue(attr(e, "type").v, "type", "image"))
    ELSE Ok("source")

\* impl TryFrom<&Element> for Image
Image_try_from(e) ==
    AndThen(unwrap(get_text(e)), LAMBDA val :
    AndThen(Url_parse(val), LAMBDA url :
    AndThen(ImageKindOf(e), LAMBDA kind :
    AndThen(DimensionChecked(e, "width", "image"), LAMBDA width :
    AndThen(DimensionChecked(e, "height", "image"), LAMBDA height :
        Ok([width |-> width, height |-> height, url |-> url,
            kind |-> kind]))))))

\* impl TryFrom<&Element> for Video
Video_try_from(e) ==
    AndThen(unwrap(get_text(e)), LAMBDA val :
    AndThen(Url_parse(val), LAMBDA url :
    AndThen(DimensionChecked(e, "width", "video"), LAMBDA width :
    AndThen(DimensionChecked(e, "height", "video"), LAMBDA height :
        Ok([width |-> width, height |-> height,
            codec |-> attr(e, "codec"),
            container |-> attr(e, "container"), url |-> url])))))

\* impl TryFrom<&Element> for Language
Language_try_from(e) ==
    AndThen(unwrap(get_text(e)), LAMBDA locale :
    AndThen(DimensionChecked(e, "percentage", "language"),
            LAMBDA percentage :
                Ok([locale |-> locale, percentage |-> percentage])))

ProvideKinds ==
    [t \in {"library", "binary", "font", "modalias", "python2", "python3",
            "dbus", "id", "codec"} |->
        CASE t = "library" -> "Library"
          [] t = "binary" -> "Binary"
          [] t = "font" -> "Font"
          [] t = "modalias" -> "Modalias"
          [] t = "python2" -> "Python2"
          [] t = "python3" -> "Python3"
          [] t = "dbus" -> "DBus"
          [] t = "id" -> "Id"
          [] t = "codec" -> "Codec"]

\* The `firmware` arm of Provide::try_from.
ProvideFirmware(e, val) ==
    AndThen(ok_or_else(attr(e, "type"),
                       MissingAttribute("type", "firmware")),
            LAMBDA t :
    AndThen(map_err(EnumFromStr(FirmwareKindNames, t),
                    InvalidValue(t, "type", "firmware")),
            LAMBDA kind :
                Ok(VariantOf("Firmware", [kind |-> kind, item |-> val]))))

ProvideOfName(e, val) ==
    IF e.name \in DOMAIN ProvideKinds
    THEN Ok(VariantOf(ProvideKinds[e.name], val))
    ELSE IF e.name = "firmware" THEN ProvideFirmware(e, val)
    ELSE Err(InvalidValue(e.name, "type", "provide"))

\* impl TryFrom<&Element> for Provide
Provide_try_from(e) ==
    AndThen(unwrap(get_text(e)), LAMBDA val : ProvideOfName(e, val))

---------------------------------------------------------------------------
(* Dates (deserialize_date, src/src/xml.rs).  An instant is its number of  *)
(* seconds since the Unix epoch.                                           *)

\* The date-like texts of the generated documents, read as chrono reads
\* them: "%s" takes a decimal number of seconds, "%Y-%m-%d" three numbers.
DateTexts ==
    [t \in {"1397253600", "0", "2012-08-26", "1970-01-02", "2012-02-30",
            "2012-13-01"} |->
        CASE t = "1397253600" -> [form |-> "seconds", secs |-> 1397253600]
          [] t = "0" -> [form |-> "seconds", secs |-> 0]
          [] t = "2012-08-26" -> [form |-> "ymd", y |-> 2012, m |-> 8, d |-> 26]
          [] t = "1970-01-02" -> [form |-> "ymd", y |-> 1970, m |-> 1, d |-> 2]
          [] t = "2012-02-30" -> [form |-> "ymd", y |-> 2012, m |-> 2, d |-> 30]
          [] t = "2012-13-01" -> [form |-> "ymd", y |-> 2012, m |-> 13, d |-> 1]]

IsLeapYear(y) == (y % 4 = 0 /\ y % 100 # 0) \/ y % 400 = 0

DaysInMonth(y, m) ==
    CASE m \in {1, 3, 5, 7, 8, 10, 12} -> 31
      [] m \in {4, 6, 9, 11} -> 30
      [] m = 2 -> IF IsLeapYear(y) THEN 29 ELSE 28
      [] OTHER -> 0

\* The days from 1970-01-01 to the civil date y-m-d.
DaysFromCivil(y, m, d) ==
    LET yy == IF m <= 2 THEN y - 1 ELSE y
        era == yy \div 400
        yoe == yy - era * 400
        mp == IF m > 2 THEN m - 3 ELSE m + 9
        doy == (153 * mp + 2) \div 5 + d - 1
        doe == yoe * 365 + yoe \div 4 - yoe \div 100 + doy
    IN  era * 146097 + doe - 719468

\* Utc.datetime_from_str(date, "%s")
timestamp_from_str(date) ==
    IF date \in DOMAIN DateTexts /\ DateTexts[date].form = "seconds"
    THEN Some(DateTexts[date].secs)
    ELSE None

\* NaiveDate::parse_from_str(date, "%Y-%m-%d") followed by and_hms(0, 0, 0)
midnight_from_str(date) ==
    IF date \in DOMAIN DateTexts /\ DateTexts[date].form = "ymd"
    THEN LET c == DateTexts[date]
         IN IF c.m \in 1..12 /\ c.d \in 1..DaysInMonth(c.y, c.m)
            THEN Some(DaysFromCivil(c.y, c.m, c.d) * 86400)
            ELSE None
    ELSE None

\* A faulty deserialize_date: only a Unix timestamp is understood.
deserialize_date_seconds_only(date) == timestamp_from_str(date)

\* deserialize_date: a Unix timestamp, or else a calendar date at midnight
\* UTC, or else a chrono::ParseError (None here).
deserialize_date(date) ==
    IF timestamp_from_str(date).some THEN timestamp_from_str(date)
    ELSE midnight_from_str(date)

---------------------------------------------------------------------------
(* Artifact, Release and Screenshot (src/src/xml.rs, src/src/builders.rs). *)

\* ArtifactBuilder::default
ArtifactBuilder_default ==
    [platform |-> None, kind |-> None, sizes |-> <<>>, url |-> None,
     checksums |-> <<>>, bundles |-> <<>>]

\* ArtifactBuilder::build: the location and the type are `expect`ed.
ArtifactBuilder_build(self) ==
    IF ~self.url.some THEN Panic
    ELSE IF ~self.kind.some THEN Panic
    ELSE Ok([url |-> self.url.v, kind |-> self.kind.v, sizes |-> self.sizes,
             checksums |-> self.checksums, platform |-> self.platform,
             bundles |-> self.bundles])

\* One turn of the loop over an <artifact>'s children.
ArtifactStep(artifact, node) ==
    IF node.kind # "Element" THEN Ok(artifact)
    ELSE CASE node.name = "location" ->
                AndThen(unwrap(get_text(node)), LAMBDA val :
                AndThen(Url_parse(val), LAMBDA url :
                    Ok([artifact EXCEPT !.url = Some(url)])))
           [] node.name = "size" ->
                AndThen(Size_try_from(node), LAMBDA size :
                    Ok([artifact EXCEPT !.sizes = Append(@, size)]))
           [] node.name = "checksum" ->
                AndThen(Checksum_try_from(node), LAMBDA checksum :
                    Ok([artifact EXCEPT !.checksums = Append(@, checksum)]))
           [] OTHER -> Ok(artifact)

\* An optional attribute that, when present, must name a member of a
\* closed vocabulary.
OptionalKind(e, name, names, tag) ==
    MapOption(attr(e, name),
              LAMBDA t : map_err(EnumFromStr(names, t),
                                 InvalidValue(t, name, tag)))

\* impl TryFrom<&Element> for Artifact
Artifact_try_from(e) ==
    AndThen(OptionalKind(e, "type", ArtifactKindNames, "artifact"),
            LAMBDA kind :
    AndThen(TryFold(ArtifactStep,
                    [ArtifactBuilder_default EXCEPT
                        !.kind = kind, !.platform = attr(e, "platform")],
                    e.children),
            ArtifactBuilder_build))

\* ReleaseBuilder::new
ReleaseBuilder_new(version) ==
    [date |-> None, date_eol |-> None, description |-> None,
     kind |-> Some("stable"), sizes |-> <<>>, version |-> version,
     urgency |-> "medium", artifacts |-> <<>>, url |-> None,
     issues |-> <<>>]

\* ReleaseBuilder::description: an empty text leaves the field absent.
ReleaseBuilder_description(self, description) ==
    IF is_empty(description) THEN self
    ELSE [self EXCEPT !.description = Some(description)]

\* ReleaseBuilder::build
ReleaseBuilder_build(self) ==
    [version |-> self.version, date |-> self.date,
     date_eol |-> self.date_eol, kind |-> unwrap_or(self.kind, "stable"),
     description |-> self.description, sizes |-> self.sizes,
     urgency |-> self.urgency, artifacts |-> self.artifacts,
     url |-> self.url, issues |-> self.issues]

\* `for child in c.children.iter() { release.artifact(Artifact::try_from(..)?) }`
ReleaseArtifactStep(acc, child) ==
    AndThen(ok_or_else(as_element(child), InvalidTag("artifact")),
            LAMBDA c :
    AndThen(Artifact_try_from(c), LAMBDA artifact :
        Ok([acc EXCEPT !.release.artifacts = Append(@, artifact)])))

\* One turn of the loop over a <release>'s children; acc holds the builder
\* and the description gathered so far.
ReleaseStep(acc, node) ==
    IF node.kind # "Element" THEN Ok(acc)
    ELSE CASE node.name = "artifacts" ->
                TryFold(ReleaseArtifactStep, acc, node.children)
           [] node.name = "size" ->
                AndThen(Size_try_from(node), LAMBDA size :
                    Ok([acc EXCEPT !.release.sizes = Append(@, size)]))
           [] node.name = "description" ->
                Ok([acc EXCEPT
                      !.description = markup_add_for_element(@, node)])
           [] node.name = "url" ->
                AndThen(unwrap(get_text(node)), LAMBDA val :
                AndThen(Url_parse(val), LAMBDA url :
                    Ok([acc EXCEPT !.release.url = Some(url)])))
           [] OTHER -> Ok(acc)

\* The optional date-like attribute `name` of a <release>: absent, an
\* instant, or InvalidValue(text, name, "release").
ReleaseDate(e, name) ==
    MapOption(attr(e, name),
              LAMBDA d : ok_or_else(deserialize_date(d),
                                    InvalidValue(d, name, "release")))

\* A faulty header: `timestamp` is only looked at when there is no `date`.
ReleaseHeader_date_first(version, date, timestamp, date_eol, urgency, kind) ==
    [ReleaseBuilder_new(version) EXCEPT
        !.date = IF date.some THEN date
                 ELSE IF timestamp.some THEN timestamp ELSE @,
        !.date_eol = IF date_eol.some THEN date_eol ELSE @,
        !.urgency = unwrap_or(urgency, @),
        !.kind = IF kind.some THEN kind ELSE @]

\* The builder Release::try_from holds when it reaches its loop: `date` is
\* set from `date` and then again from `timestamp`.
ReleaseHeader(version, date, timestamp, date_eol, urgency, kind) ==
    [ReleaseBuilder_new(version) EXCEPT
        !.date = IF timestamp.some THEN timestamp
                 ELSE IF date.some THEN date ELSE @,
        !.date_eol = IF date_eol.some THEN date_eol ELSE @,
        !.urgency = unwrap_or(urgency, @),
        !.kind = IF kind.some THEN kind ELSE @]

\* The end of Release::try_from.
ReleaseFinish(acc) ==
    Ok(ReleaseBuilder_build(
         ReleaseBuilder_description(acc.release, acc.description)))

\* impl TryFrom<&Element> for Release
Release_try_from(e) ==
    AndThen(ok_or_else(attr(e, "version"),
                       MissingAttribute("version", "release")),
            LAMBDA version :
    AndThen(ReleaseDate(e, "date"), LAMBDA date :
    AndThen(ReleaseDate(e, "timestamp"), LAMBDA timestamp :
    AndThen(ReleaseDate(e, "date_eol"), LAMBDA date_eol :
    AndThen(OptionalKind(e, "urgency", ReleaseUrgencyNames, "release"),
            LAMBDA urgency :
    AndThen(OptionalKind(e, "type", ReleaseKindNames, "release"),
            LAMBDA kind :
    AndThen(TryFold(ReleaseStep,
                    [release |-> ReleaseHeader(version, date, timestamp,
                                               date_eol, urgency, kind),
                     description |-> EmptyMap],
                    e.children),
            ReleaseFinish)))))))

\* One turn of the loop over a <screenshot>'s children.
ScreenshotStep(acc, node) ==
    IF node.kind # "Element" THEN Ok(acc)
    ELSE CASE node.name = "image" ->
                AndThen(Image_try_from(node), LAMBDA image :
                    Ok([acc EXCEPT !.images = Append(@, image)]))
           [] node.name = "caption" ->
                Ok([acc EXCEPT !.caption = add_for_element(@, node)])
           [] node.name = "video" ->
                AndThen(Video_try_from(node), LAMBDA video :
                    Ok([acc EXCEPT !.videos = Append(@, video)]))
           [] OTHER -> Ok(acc)

\* ScreenshotBuilder::caption (an empty caption stays absent) and
\* ScreenshotBuilder::build.
ScreenshotFinish(is_default, acc) ==
    Ok([caption |-> IF is_empty(acc.caption) THEN None
                    ELSE Some(acc.caption),
        images |-> acc.images, videos |-> acc.videos,
        is_default |-> unwrap_or(is_default, TRUE)])

\* A faulty default: a screenshot without `type` counts as the default one.
ScreenshotIsDefault_when_untyped(e) ==
    ~attr(e, "type").some \/ attr(e, "type").v = "default"

\* `e.attributes.get("type").map(|t| t == "default").unwrap_or_else(|| false)`
ScreenshotIsDefault(e) ==
    attr(e, "type").some /\ attr(e, "type").v = "default"

\* impl TryFrom<&Element> for Screenshot
Screenshot_try_from(e) ==
    AndThen(TryFold(ScreenshotStep,
                    [images |-> <<>>, videos |-> <<>>, caption |-> EmptyMap],
                    e.children),
            LAMBDA acc : ScreenshotFinish(Some(ScreenshotIsDefault(e)), acc))

---------------------------------------------------------------------------
(* Component (src/src/xml.rs, src/src/builders.rs).                        *)

\* ComponentBuilder::default
ComponentBuilder_default ==
    [kind |-> "Generic", id |-> None, name |-> None, summary |-> None,
     description |-> None, project_license |-> None,
     metadata_license |-> None, project_group |-> None,
     compulsory_for_desktop |-> None, extends |-> <<>>, icons |-> <<>>,
     screenshots |-> <<>>, urls |-> <<>>, developer_name |-> None,
     update_contact |-> None, categories |-> <<>>, launchables |-> <<>>,
     pkgname |-> None, bundles |-> <<>>, releases |-> <<>>,
     languages |-> <<>>, mimetypes |-> <<>>, kudos |-> <<>>,
     keywords |-> None, content_rating |-> None, provides |-> <<>>,
     translations |-> <<>>, source_pkgname |-> None, suggestions |-> <<>>,
     metadata |-> EmptyMap, supports |-> <<>>, recommends |-> <<>>,
     requires |-> <<>>]

\* ComponentBuilder::id
ComponentBuilder_id(self, id) == [self EXCEPT !.id = Some(id)]

\* ComponentBuilder::name: the name is stored whatever it holds.
ComponentBuilder_name(self, name) == [self EXCEPT !.name = Some(name)]

\* Faulty setters: the value is stored even when it is empty.
SetUnlessEmpty_always(self, field, value) ==
    [self EXCEPT ![field] = Some(value)]

\* ComponentBuilder::summary / keywords / description / developer_name: an
\* empty value leaves the field absent.
SetUnlessEmpty(self, field, value) ==
    IF is_empty(value) THEN self ELSE [self EXCEPT ![field] = Some(value)]

\* ComponentBuilder::content_rating: the rating is stored in place of any
\* earlier one.
ComponentBuilder_content_rating(self, content_rating) ==
    [self EXCEPT !.content_rating = Some(content_rating)]

\* ComponentBuilder::build: `id` and `name` are `expect`ed.
ComponentBuilder_build(self) ==
    IF ~self.id.some THEN Panic
    ELSE IF ~self.name.some THEN Panic
    ELSE Ok([self EXCEPT !.id = self.id.v, !.name = self.name.v])

\* The state of Component::try_from while it walks the children: the
\* builder and the five locale-keyed accumulators.
ComponentAcc(component) ==
    [component |-> component, name |-> EmptyMap, summary |-> EmptyMap,
     developer_name |-> EmptyMap, keywords |-> EmptyMap,
     description |-> EmptyMap]

\* `component = component.<field>(r?)` for an optional field ...
SetField(acc, field, r) ==
    AndThen(r, LAMBDA v : Ok([acc EXCEPT !.component[field] = Some(v)]))

\* ... and for a list field.
PushField(acc, field, r) ==
    AndThen(r, LAMBDA v : Ok([acc EXCEPT !.component[field] = Append(@, v)]))

\* `child.as_element().ok_or_else(|| ParseError::InvalidTag(tag))`
ChildElement(child, tag) == ok_or_else(as_element(child), InvalidTag(tag))

\* `<child>.get_text().unwrap()` of a nested list's child.
ChildText(child, tag) ==
    AndThen(ChildElement(child, tag), LAMBDA c : unwrap(get_text(c)))

CategoryStep(acc, child) ==
    PushField(acc, "categories",
              AndThen(ChildText(child, "category"), Category_from_str))

KeywordStep(acc, child) ==
    AndThen(ChildElement(child, "keywords"), LAMBDA c :
        Ok([acc EXCEPT !.keywords = list_add_for_element(@, c)]))

KudoStep(acc, child) ==
    PushField(acc, "kudos", AndThen(ChildText(child, "kudo"), Kudo_from_str))

MimetypeStep(acc, child) ==
    PushField(acc, "mimetypes", ChildText(child, "mimetype"))

ScreenshotsStep(acc, child) ==
    PushField(acc, "screenshots",
              AndThen(ChildElement(child, "screenshots"),
                      Screenshot_try_from))

ReleasesStep(acc, child) ==
    PushField(acc, "releases",
              AndThen(ChildElement(child, "releases"), Release_try_from))

LanguagesStep(acc, child) ==
    PushField(acc, "languages",
              AndThen(ChildElement(child, "languages"), Language_try_from))

ProvidesStep(acc, child) ==
    PushField(acc, "provides",
              AndThen(ChildElement(child, "prorivdes"), Provide_try_from))

SuggestsStep(acc, child) ==
    PushField(acc, "suggestions",
              AndThen(ChildElement(child, "id"), AppId_try_from))

MetadataStep(acc, child) ==
    AndThen(ChildElement(child, "value"), LAMBDA c :
    AndThen(ok_or_else(attr(c, "key"), MissingAttribute("key", "value")),
            LAMBDA key :
        Ok([acc EXCEPT !.component.metadata =
                            MapInsert(@, key, get_text(c))])))

\* The child tags Component::try_from has a match arm for.
ComponentTags ==
    {"name", "summary", "developer_name", "description", "project_license",
     "metadata_license", "icon", "update_contact", "project_group",
     "compulsory_for_desktop", "pkgname", "categories", "source_pkgname",
     "keywords", "kudos", "mimetypes", "screenshots", "releases", "extends",
     "translation", "launchable", "content_rating", "languages", "provides",
     "url", "bundle", "suggests", "metadata"}

\* A faulty last arm: a child of any other name is refused.
SkipUnrecognized_refused(acc, node) == Err(InvalidTag(node.name))

\* The `_ => ()` arm: a child of any other name changes nothing.
SkipUnrecognized(acc, node) == Ok(acc)

\* The `content_rating` arm.
ContentRatingArm(acc, node) ==
    AndThen(ContentRating_try_from(node), LAMBDA content_rating :
        Ok([acc EXCEPT !.component =
                ComponentBuilder_content_rating(@, content_rating)]))

\* One turn of the loop over a <component>'s children.
ComponentStep(acc, node) ==
    IF node.kind # "Element" THEN Ok(acc)
    ELSE IF node.name \notin ComponentTags THEN SkipUnrecognized(acc, node)
    ELSE CASE node.name = "name" ->
                Ok([acc EXCEPT !.name = add_for_element(@, node)])
           [] node.name = "summary" ->
                Ok([acc EXCEPT !.summary = add_for_element(@, node)])
           [] node.name = "developer_name" ->
                Ok([acc EXCEPT !.developer_name = add_for_element(@, node)])
           [] node.name = "description" ->
                Ok([acc EXCEPT
                      !.description = markup_add_for_element(@, node)])
           [] node.name \in {"project_license", "metadata_license"} ->
                SetField(acc, node.name, License_try_from(node))
           [] node.name = "icon" ->
                PushField(acc, "icons", Icon_try_from(node))
           [] node.name \in {"update_contact", "project_group",
                             "compulsory_for_desktop", "pkgname",
                             "source_pkgname"} ->
                SetField(acc, node.name, unwrap(get_text(node)))
           [] node.name = "categories" ->
                TryFold(CategoryStep, acc, node.children)
           [] node.name = "keywords" ->
                TryFold(KeywordStep, acc, node.children)
           [] node.name = "kudos" ->
                TryFold(KudoStep, acc, node.children)
           [] node.name = "mimetypes" ->
                TryFold(MimetypeStep, acc, node.children)
           [] node.name = "screenshots" ->
                TryFold(ScreenshotsStep, acc, node.children)
           [] node.name = "releases" ->
                TryFold(ReleasesStep, acc, node.children)
           [] node.name = "extends" ->
                PushField(acc, "extends", AppId_try_from(node))
           [] node.name = "translation" ->
                PushField(acc, "translations", Translation_try_from(node))
           [] node.name = "launchable" ->
                PushField(acc, "launchables", Launchable_try_from(node))
           [] node.name = "content_rating" -> ContentRatingArm(acc, node)
           [] node.name = "languages" ->
                TryFold(LanguagesStep, acc, node.children)
           [] node.name = "provides" ->
                TryFold(ProvidesStep, acc, node.children)
           [] node.name = "url" ->
                PushField(acc, "urls", ProjectUrl_try_from(node))
           [] node.name = "bundle" ->
                PushField(acc, "bundles", Bundle_try_from(node))
           [] node.name = "suggests" ->
                TryFold(SuggestsStep, acc, node.children)
           [] node.name = "metadata" ->
                TryFold(MetadataStep, acc, node.children)

\* The component's kind: the `type` attribute through
\* ComponentKind::from_str, or the default kind when it is absent.
ComponentKindOf(e) ==
    IF attr(e, "type").some THEN ComponentKind_from_str(attr(e, "type").v)
    ELSE Ok(ComponentBuilder_default.kind)

\* A faulty lookup of the identifier: the <id> child is unwrapped.
ComponentId_unwrapped(e) ==
    AndThen(unwrap(get_child(e, "id")), AppId_try_from)

\* `AppId::try_from(e.get_child("id").ok_or_else(|| MissingTag("id"))?)?`
ComponentId(e) ==
    AndThen(ok_or_else(get_child(e, "id"), MissingTag("id")), AppId_try_from)

\* The end of Component::try_from: the accumulators go into the builder,
\* which is then built.
ComponentFinish(acc, app_id) ==
    ComponentBuilder_build(
      ComponentBuilder_id(
        SetUnlessEmpty(
          SetUnlessEmpty(
            SetUnlessEmpty(
              SetUnlessEmpty(
                ComponentBuilder_name(acc.component, acc.name),
                "summary", acc.summary),
              "keywords", acc.keywords),
            "description", acc.description),
          "developer_name", acc.developer_name),
        app_id))

\* impl TryFrom<&Element> for Component
Component_try_from(e) ==
    AndThen(ComponentKindOf(e), LAMBDA kind :
    AndThen(ComponentId(e), LAMBDA app_id :
    AndThen(TryFold(ComponentStep,
                    ComponentAcc([ComponentBuilder_default EXCEPT
                                     !.kind = kind]),
                    e.children),
            LAMBDA acc : ComponentFinish(acc, app_id))))

---------------------------------------------------------------------------
(* Collection (src/src/xml.rs, src/src/builders.rs).                       *)

\* CollectionBuilder::new
CollectionBuilder_new(version) ==
    [version |-> version, origin |-> None, components |-> <<>>,
     architecture |-> None]

\* A faulty CollectionBuilder::component: the component is put in front.
CollectionBuilder_component_front(self, component) ==
    [self EXCEPT !.components = <<component>> \o @]

\* CollectionBuilder::component
CollectionBuilder_component(self, component) ==
    [self EXCEPT !.components = Append(@, component)]

\* CollectionBuilder::build
CollectionBuilder_build(self) ==
    [version |-> self.version, origin |-> self.origin,
     components |-> self.components, architecture |-> self.architecture]

\* A faulty version check: a missing `version` becomes the empty string.
CollectionVersion_defaulted(e) == Ok(unwrap_or(attr(e, "version"), ""))

\* The `version` attribute, which Collection::try_from asks for first.
CollectionVersion(e) ==
    ok_or_else(attr(e, "version"), MissingAttribute("version", "collection"))

\* The builder Collection::try_from holds when it reaches its loop: the
\* architecture as given, the origin unless it is empty.
CollectionHeader(e, version) ==
    LET c0 == CollectionBuilder_new(version)
        c1 == IF attr(e, "architecture").some
              THEN [c0 EXCEPT !.architecture = attr(e, "architecture")]
              ELSE c0
    IN  IF attr(e, "origin").some /\ attr(e, "origin").v # ""
        THEN [c1 EXCEPT !.origin = attr(e, "origin")]
        ELSE c1

\* Whether the loop of Collection::try_from converts this node.
IsComponentNode(node) == node.kind = "Element" /\ node.name = "component"

\* A faulty find_by_id: only the identifier itself is looked for.
find_by_id_exact(self, id) ==
    SelectSeq(self.components, LAMBDA c : c.id = id)

\* Collection::find_by_id (src/src/collection.rs): the components whose id
\* is `id` or `id` followed by ".desktop".
find_by_id(self, id) ==
    SelectSeq(self.components,
              LAMBDA c : c.id = id \/ c.id = id \o ".desktop")

---------------------------------------------------------------------------
(* The order of content-rating versions.                                   *)

ContentRatingVersions == {"Oars1_0", "Oars1_1", "Unknown"}

\* impl Ord for ContentRatingVersion (src/src/enums.rs)
ContentRatingVersion_cmp(self, other) ==
    CASE (self = "Oars1_0" /\ other = "Oars1_1") \/ self = "Unknown" -> "Less"
      [] \/ self = "Oars1_1" /\ other = "Oars1_0"
         \/ self # "Unknown" /\ other = "Unknown" -> "Greater"
      [] OTHER -> "Equal"

\* impl Ord for ContentRatingVersion (src/src/content_rating.rs)
content_rating_cmp(self, other) ==
    CASE self = "Oars1_0" /\ other = "Oars1_1" -> "Less"
      [] self = "Oars1_1" /\ other = "Oars1_0" -> "Greater"
      [] self = other /\ self # "Unknown" -> "Equal"
      [] OTHER -> "Less"

---------------------------------------------------------------------------
(* The documents the conversions are run on.                               *)

\* All sequences over S of length at most n.
SeqsUpTo(S, n) == UNION {[1..k -> S] : k \in 0..n}

\* The attribute maps that carry `name`, one per value, and the empty map.
OptionalAttr(name, values) == {NoAttrs} \cup {name :> v : v \in values}

\* No text, or one text run out of `texts`.
OptionalText(texts) == {<<>>} \cup {<<TextNode(t)>> : t \in texts}

idA == Leaf("id", NoAttrs, "org.example.a")
idB == Leaf("id", NoAttrs, "org.example.b")
idNoText == Elem("id", NoAttrs, <<>>)
nameC == Leaf("name", NoAttrs, "App")
nameDe == Leaf("name", "lang" :> "de", "Anwendung")
custom == Elem("custom", "key" :> "v", <<TextNode("x")>>)
blank == TextNode(" ")
rating10 ==
    Elem("content_rating", "type" :> "oars-1.0",
         <<Leaf("content_attribute", "id" :> "violence-cartoon", "mild")>>)
rating11 ==
    Elem("content_rating", "type" :> "oars-1.1",
         <<Leaf("content_attribute", "id" :> "drugs-alcohol", "moderate")>>)
ratingOther == Elem("content_rating", "type" :> "oars-2.0", <<>>)

ComponentChildren ==
    {idA, idNoText, nameC, nameDe, custom, blank, rating10, rating11,
     ratingOther}

\* <component> elements: every short sequence of the children above, with
\* the `type` attribute absent, recognised and unrecognised.
ComponentDocs ==
    {Elem("component", a, c) :
        a \in OptionalAttr("type", {"desktop", "bogus"}),
        c \in SeqsUpTo(ComponentChildren, MaxChildren)}

\* Components with a <categories> or a <kudos> list of known and unknown
\* names.
ListedComponent(list, item, texts) ==
    {Elem("component", NoAttrs, <<idA, nameC, Elem(list, NoAttrs, c)>>) :
        c \in SeqsUpTo({Leaf(item, NoAttrs, t) : t \in texts} \cup {blank},
                       2)}

ListedDocs ==
    ListedComponent("categories", "category", {"Game", "Teleport"})
    \cup ListedComponent("kudos", "kudo", {"HiDpiIcon", "Sparkles"})

\* The minimal documents <component><id>ID</id><name>NAME</name></component>,
\* the empty NAME being an element without text.
MinimalComponent(id, name) ==
    Elem("component", NoAttrs,
         <<Leaf("id", NoAttrs, id),
           Elem("name", NoAttrs,
                IF name = "" THEN <<>> ELSE <<TextNode(name)>>)>>)

MinimalDocs ==
    {MinimalComponent(id, name) :
        id \in {"org.example.a", "org.example.b"},
        name \in {"App", "Anwendung", ""}}

\* Components with a <requires>, <recommends> or <supports> list of
\* relation items.
RelationItems ==
    {Leaf("id", NoAttrs, "org.example.b"),
     Leaf("control", NoAttrs, "keyboard"),
     Leaf("display_length", "compare" :> "ge", "medium")}

RelationDocs ==
    {Elem("component", NoAttrs, <<idA, nameC, Elem(rel, NoAttrs, c)>>) :
        rel \in {"requires", "recommends", "supports"},
        c \in SeqsUpTo(RelationItems, 2)}

BundleDocs ==
    {Elem("bundle", a, c) :
        a \in OptionalAttr("type", {"snap", "flatpak", "deb"})
              \cup {("type" :> "flatpak") @@ ("sdk" :> "org.gnome.Sdk"),
                    ("type" :> "flatpak") @@ ("sdk" :> "org.gnome.Sdk")
                        @@ ("runtime" :> "org.gnome.Platform")},
        c \in OptionalText({"org.example.App"})}

ProvideDocs ==
    {Elem("firmware", a, c) :
        a \in OptionalAttr("type", {"runtime", "flashed", "bogus"}),
        c \in OptionalText({"ipw2200-bss.fw"})}
    \cup {Elem(n, NoAttrs, c) :
            n \in {"binary", "library", "gadget"},
            c \in OptionalText({"foo"})}

ReleaseDocs ==
    {Elem("release", v @@ t @@ d @@ s @@ eol, <<>>) :
        v \in OptionalAttr("version", {"1.2"}),
        t \in OptionalAttr("type", {"development", "nightly"}),
        d \in OptionalAttr("date", {"2012-08-26", "2012-02-30", "soon"}),
        s \in OptionalAttr("timestamp", {"1397253600", "2012-08-26",
                                         "2012-13-01"}),
        eol \in OptionalAttr("date_eol", {"1970-01-02", "0", "soon"})}

ImageDocs ==
    {Elem("image", a @@ d, c) :
        a \in OptionalAttr("type", {"thumbnail", "source", "poster"}),
        d \in {NoAttrs, "width" :> "4294967295", "width" :> "-1",
               "height" :> "4294967296",
               ("width" :> "big") @@ ("height" :> "64")},
        c \in OptionalText({"https://example.org/a.png", "a.png"})}

SizeDocs ==
    {Elem("size", a, c) :
        a \in OptionalAttr("type", {"download", "installed", "packed"}),
        c \in OptionalText({"64", "-1", "18446744073709551615",
                            "18446744073709551616", "big"})}

ScreenshotDocs ==
    {Elem("screenshot", a, c) :
        a \in OptionalAttr("type", {"default", "source", "Default", ""}),
        c \in SeqsUpTo({Leaf("image", NoAttrs, "https://example.org/a.png"),
                        Leaf("image", "type" :> "poster",
                             "https://example.org/a.png"),
                        Elem("image", NoAttrs, <<>>),
                        Leaf("caption", NoAttrs, "Main window"),
                        blank}, 2)}

ArtifactDocs ==
    {Elem("artifact", a, c) :
        a \in OptionalAttr("type", {"binary", "source", "patch"}),
        c \in {<<>>,
               <<Leaf("location", NoAttrs, "https://example.org/a.tar.xz")>>,
               <<Elem("location", NoAttrs, <<>>)>>}}

ContentAttributeDocs ==
    {Elem("content_attribute", a, c) :
        a \in OptionalAttr("id", {"violence-cartoon", "money-gambling",
                                  "violence-legos"}),
        c \in OptionalText({"mild", "intense", "extreme"})}

TranslationDocs ==
    {Elem("translation", a, c) :
        a \in OptionalAttr("type", {"gettext", "qt", "fluent"}),
        c \in OptionalText({"org.example.a"})}

ContentRatingDocs ==
    {Elem("content_rating", a, c) :
        a \in OptionalAttr("type", {"oars-1.0", "oars-1.1", "oars-2.0"}),
        c \in {<<>>, rating10.children, <<blank>>}}

LaunchableDocs ==
    {Elem("launchable", a, c) :
        a \in OptionalAttr("type", {"desktop-id", "url", "snap"}),
        c \in OptionalText({"org.example.a.desktop",
                            "http://www.example.org"})}

ProjectUrlDocs ==
    {Elem("url", a, c) :
        a \in OptionalAttr("type", {"homepage", "bugtracker", "vcs-browser"}),
        c \in OptionalText({"http://www.example.org", "example"})}

IconDocs ==
    {Elem("icon", a @@ d, c) :
        a \in OptionalAttr("type", {"stock", "cached", "remote", "local",
                                    "emblem"}),
        d \in {NoAttrs, "width" :> "64", "height" :> "064",
               ("width" :> "64") @@ ("height" :> "0"), "width" :> "big"},
        c \in OptionalText({"a.png", "https://example.org/a.png"})}

\* Children of the assemblers: for each, ones that convert, ones whose
\* conversion returns an error and ones without the text their converter
\* unwraps.
WalkChildren ==
    [t \in {"component", "release", "artifact", "content_rating"} |->
        CASE t = "component" ->
                {nameC,
                 Leaf("url", "type" :> "homepage", "example"),
                 Elem("releases", NoAttrs,
                      <<Elem("release", NoAttrs, <<>>)>>),
                 Elem("bundle", "type" :> "snap", <<>>)}
          [] t = "release" ->
                {Leaf("size", "type" :> "download", "64"),
                 Leaf("size", "type" :> "packed", "64"),
                 Leaf("url", NoAttrs, "example"),
                 Elem("url", NoAttrs, <<>>),
                 Elem("artifacts", NoAttrs,
                      <<Elem("artifact", "type" :> "patch", <<>>)>>)}
          [] t = "artifact" ->
                {Leaf("location", NoAttrs, "https://example.org/a.tar.xz"),
                 Leaf("location", NoAttrs, "example"),
                 Leaf("checksum", "type" :> "sha256", "abc"),
                 Leaf("checksum", "type" :> "crc32", "abc"),
                 Elem("checksum", "type" :> "sha1", <<>>),
                 Leaf("bundle", "type" :> "snap", "org.example.App"),
                 Leaf("bundle", "type" :> "deb", "org.example.App")}
          [] t = "content_rating" ->
                {Leaf("content_attribute", "id" :> "drugs-alcohol", "mild"),
                 Leaf("content_attribute", "id" :> "violence-legos", "mild"),
                 Leaf("content_attribute", NoAttrs, "mild"),
                 Elem("content_attribute", "id" :> "sex-themes", <<>>)}]

WalkHead(t) ==
    CASE t = "component" -> <<idA>>
      [] OTHER -> <<>>

WalkAttrs(t) ==
    CASE t = "release" -> "version" :> "1.2"
      [] t = "artifact" -> "type" :> "binary"
      [] OTHER -> NoAttrs

WalkDocs ==
    UNION {{Elem(t, WalkAttrs(t), WalkHead(t) \o c) :
                c \in SeqsUpTo(WalkChildren[t], 2)} :
           t \in DOMAIN WalkChildren}

ConvertDocs ==
    ComponentDocs \cup ListedDocs \cup MinimalDocs \cup RelationDocs
    \cup WalkDocs
    \cup BundleDocs \cup ProvideDocs
    \cup ReleaseDocs \cup ImageDocs \cup SizeDocs \cup ScreenshotDocs \cup ArtifactDocs
    \cup ContentAttributeDocs \cup TranslationDocs \cup ContentRatingDocs
    \cup LaunchableDocs \cup ProjectUrlDocs \cup IconDocs

\* The nodes a collection document is made of: two valid components, one
\* without <id>, one of an unknown kind, one whose <id> has no text, an
\* element of another name and a text run.
componentA == Elem("component", "type" :> "desktop", <<idA, nameC>>)
componentB == Elem("component", NoAttrs, <<nameDe, idB, rating11>>)
componentNoId == Elem("component", NoAttrs, <<nameC>>)
componentBogus == Elem("component", "type" :> "bogus", <<idA, nameC>>)
componentNoText == Elem("component", NoAttrs, <<idNoText, nameC>>)
info == Elem("info", NoAttrs, <<idA>>)

CollectionNodes ==
    {componentA, componentB, componentNoId, componentBogus, componentNoText,
     info, blank}

CollectionAttrs ==
    {v @@ o : v \in OptionalAttr("version", {"0.8"}),
              o \in {NoAttrs, "origin" :> "",
                     ("origin" :> "flathub") @@ ("architecture" :> "amd64")}}

CollectionDocs ==
    {Elem("components", a, c) :
        a \in CollectionAttrs, c \in SeqsUpTo(CollectionNodes, MaxNodes)}

\* Sibling elements of one tag: without a locale, with the locales "de",
\* "fr" and "C", with plain text, with nested markup and without text.
SiblingElements ==
    {Leaf("name", NoAttrs, "App"),
     Elem("name", NoAttrs, <<>>),
     Leaf("name", "lang" :> "de", "Anwendung"),
     Leaf("name", "lang" :> "de", "Programm"),
     Elem("name", "lang" :> "fr",
          <<Elem("p", NoAttrs, <<TextNode("Appli")>>)>>),
     Leaf("name", "lang" :> "C", "Program")}

SiblingLists == SeqsUpTo(SiblingElements, MaxSiblings)

\* Collection values to search: components told apart by their names, with
\* ids that are equal, that differ by the ".desktop" suffix, or unrelated.
FindIds == {"org.example.a", "org.example.a.desktop", "org.example.b"}

FindComponents ==
    {[ComponentBuilder_default EXCEPT !.id = id, !.name = "C" :> name] :
        id \in FindIds, name \in {"App", "Anwendung"}}

FindCollections ==
    {[CollectionBuilder_build(CollectionBuilder_new("0.8")) EXCEPT
        !.components = c] : c \in SeqsUpTo(FindComponents, MaxComponents)}

\* The lists of versions the comparisons are run on.
RatingLists ==
    UNION {[1..k -> ContentRatingVersions] : k \in 1..MaxRatings}

---------------------------------------------------------------------------
(* Collection::try_from, one turn of its loop at a time.                   *)
(*   input       the element being converted                               *)
(*   pc          "start", "loop" or "done"                                 *)
(*   i           the position of the next child to look at                 *)
(*   collection  the builder                                               *)
(*   calls       the positions of the children handed to                   *)
(*               Component::try_from, in the order of the calls            *)
(*   result      the outcome, once there is one                            *)

NoBuilder == None

Init ==
    /\ input \in CollectionDocs
    /\ pc = "start"
    /\ i = 1
    /\ collection = NoBuilder
    /\ calls = <<>>
    /\ result = NoResult

\* The `version` check and the optional attributes.
CollectionBegin ==
    /\ pc = "start"
    /\ LET version == CollectionVersion(input)
       IN  IF IsOk(version)
           THEN /\ collection' = CollectionHeader(input, version.val)
                /\ pc' = "loop"
                /\ result' = result
           ELSE /\ result' = version
                /\ pc' = "done"
                /\ collection' = collection
    /\ UNCHANGED <<input, i, calls>>

\* One turn of `for node in &e.children`.
CollectionNode ==
    /\ pc = "loop"
    /\ i <= Len(input.children)
    /\ LET node == input.children[i]
           r == Component_try_from(node)
       IN  IF ~IsComponentNode(node)
           THEN /\ i' = i + 1
                /\ UNCHANGED <<pc, collection, calls, result>>
           ELSE /\ calls' = Append(calls, i)
                /\ IF IsOk(r)
                   THEN /\ collection' =
                              CollectionBuilder_component(collection, r.val)
                        /\ i' = i + 1
                        /\ UNCHANGED <<pc, result>>
                   ELSE /\ result' = r
                        /\ pc' = "done"
                        /\ UNCHANGED <<i, collection>>
    /\ UNCHANGED input

\* `Ok(collection.build())`
CollectionBuild ==
    /\ pc = "loop"
    /\ i > Len(input.children)
    /\ result' = Ok(CollectionBuilder_build(collection))
    /\ pc' = "done"
    /\ UNCHANGED <<input, i, collection, calls>>

Next == CollectionBegin \/ CollectionNode \/ CollectionBuild

Spec == Init /\ [][Next]_vars

---------------------------------------------------------------------------
(* The entity converters, each applied to the documents of its tag.        *)

InitConvert ==
    /\ input \in ConvertDocs
    /\ pc = "start"
    /\ i = 1
    /\ collection = NoBuilder
    /\ calls = <<>>
    /\ result = NoResult

\* `result = <converter>::try_from(input)` for an input of one of `tags`.
Convert(tags, outcome) ==
    /\ pc = "start"
    /\ input.name \in tags
    /\ result' = outcome
    /\ pc' = "done"
    /\ UNCHANGED <<input, i, collection, calls>>

ConvertComponent ==
    Convert({"component"}, Component_try_from(input))

ConvertBundle == Convert({"bundle"}, Bundle_try_from(input))

ConvertProvide ==
    Convert({"firmware", "binary", "library", "gadget"},
            Provide_try_from(input))

ConvertRelease == Convert({"release"}, Release_try_from(input))

ConvertImage == Convert({"image"}, Image_try_from(input))

ConvertSize == Convert({"size"}, Size_try_from(input))

ConvertScreenshot == Convert({"screenshot"}, Screenshot_try_from(input))

ConvertArtifact == Convert({"artifact"}, Artifact_try_from(input))

ConvertContentAttribute ==
    Convert({"content_attribute"}, ContentAttribute_try_from(input))

ConvertTranslation == Convert({"translation"}, Translation_try_from(input))

ConvertContentRating ==
    Convert({"content_rating"}, ContentRating_try_from(input))

ConvertLaunchable == Convert({"launchable"}, Launchable_try_from(input))

ConvertProjectUrl == Convert({"url"}, ProjectUrl_try_from(input))

ConvertIcon == Convert({"icon"}, Icon_try_from(input))

NextConvert ==
    \/ ConvertComponent
    \/ ConvertBundle
    \/ ConvertProvide
    \/ ConvertRelease
    \/ ConvertImage
    \/ ConvertSize
    \/ ConvertScreenshot
    \/ ConvertArtifact
    \/ ConvertContentAttribute
    \/ ConvertTranslation
    \/ ConvertContentRating
    \/ ConvertLaunchable
    \/ ConvertProjectUrl
    \/ ConvertIcon

SpecConvert == InitConvert /\ [][NextConvert]_vars

---------------------------------------------------------------------------
(* The two orders of content-rating versions, each applied to two members  *)
(* of a list of versions; `calls` holds the two positions.                 *)

InitRating ==
    /\ input \in RatingLists
    /\ pc = "start"
    /\ i = 1
    /\ collection = NoBuilder
    /\ calls = <<>>
    /\ result = NoResult

\* `self.cmp(other)` with the order of src/src/enums.rs
CompareVersions ==
    /\ pc = "start"
    /\ \E j, k \in 1..Len(input) :
          /\ calls' = <<j, k>>
          /\ result' = ContentRatingVersion_cmp(input[j], input[k])
    /\ pc' = "enums"
    /\ UNCHANGED <<input, i, collection>>

\* `self.cmp(other)` with the order of src/src/content_rating.rs
CompareRatings ==
    /\ pc = "start"
    /\ \E j, k \in 1..Len(input) :
          /\ calls' = <<j, k>>
          /\ result' = content_rating_cmp(input[j], input[k])
    /\ pc' = "content_rating"
    /\ UNCHANGED <<input, i, collection>>

NextRating == CompareVersions \/ CompareRatings

SpecRating == InitRating /\ [][NextRating]_vars

---------------------------------------------------------------------------
(* The locale-keyed texts, each fed with a list of sibling elements, one   *)
(* add_for_element per element in document order.                          *)

InitText ==
    /\ input \in SiblingLists
    /\ pc = "start"
    /\ i = 1
    /\ collection = NoBuilder
    /\ calls = <<>>
    /\ result = NoResult

\* `for e in siblings { text.add_for_element(e) }` on an empty text.
Feed(kind, add(_, _)) ==
    /\ pc = "start"
    /\ result' = TryFold(LAMBDA acc, e : Ok(add(acc, e)), EmptyMap, input)
    /\ pc' = kind
    /\ UNCHANGED <<input, i, collection, calls>>

\* TranslatableString
FeedString == Feed("string", add_for_element)

\* MarkupTranslatableString
FeedMarkup == Feed("markup", markup_add_for_element)

\* TranslatableList
FeedList == Feed("list", list_add_for_element)

NextText == FeedString \/ FeedMarkup \/ FeedList

SpecText == InitText /\ [][NextText]_vars

---------------------------------------------------------------------------
(* Collection::find_by_id on a Collection value: `collection` is the       *)
(* Collection, `input` the identifier asked for and the Collection as it   *)
(* is before the call.                                                     *)

InitFind ==
    /\ input \in [id : FindIds, collection : FindCollections]
    /\ pc = "start"
    /\ i = 1
    /\ collection = input.collection
    /\ calls = <<>>
    /\ result = NoResult

\* `collection.find_by_id(id)`
FindById ==
    /\ pc = "start"
    /\ result' = find_by_id(collection, input.id)
    /\ pc' = "done"
    /\ UNCHANGED <<input, i, collection, calls>>

NextFind == FindById

SpecFind == InitFind /\ [][NextFind]_vars

---------------------------------------------------------------------------
(* The conversions between ParseError and CollectionParseError             *)
(* (src/src/error.rs).  `input` is the value converted, `collection` the   *)
(* CollectionParseError made from a ParseError, `result` what the          *)
(* conversion into a ParseError returns.                                   *)

\* impl From<ParseError> for ContextParseError
ContextParseError_from(error) == [error |-> error, context |-> None]

\* impl From<ParseError> for CollectionParseError
CollectionParseError_from(error) ==
    [errors |-> <<ContextParseError_from(error)>>,
     partial_collection |-> None]

\* impl From<CollectionParseError> for ParseError:
\* `error.errors.remove(0).error`; Vec::remove panics when the index is out
\* of bounds.
ParseError_from(error) ==
    IF Len(error.errors) = 0 THEN Panic
    ELSE Ok(error.errors[1].error)

\* The ParseError values converted.
ParseErrors ==
    {MissingTag("id"), InvalidTag("keywords"),
     MissingAttribute("version", "collection"),
     InvalidValue("deb", "type", "bundle")}

\* The CollectionParseError values its public fields allow.
CollectionParseErrors ==
    [errors : SeqsUpTo([error : ParseErrors, context : {None, Some(idA)}],
                       MaxErrors),
     partial_collection :
        {None, Some(CollectionBuilder_build(CollectionBuilder_new("0.8")))}]

InitError ==
    /\ input \in [form : {"collection"}, value : CollectionParseErrors]
                 \cup [form : {"parse"}, value : ParseErrors]
    /\ pc = "start"
    /\ i = 1
    /\ collection = NoBuilder
    /\ calls = <<>>
    /\ result = NoResult

\* `ParseError::from(collection_parse_error)`
IntoParseError ==
    /\ pc = "start"
    /\ input.form = "collection"
    /\ result' = ParseError_from(input.value)
    /\ pc' = "into"
    /\ UNCHANGED <<input, i, collection, calls>>

\* `CollectionParseError::from(parse_error)`
FromParseError ==
    /\ pc = "start"
    /\ input.form = "parse"
    /\ collection' = CollectionParseError_from(input.value)
    /\ pc' = "from"
    /\ UNCHANGED <<input, i, calls, result>>

\* ... and back: `ParseError::from(..)` of the value just made.
BackToParseError ==
    /\ pc = "from"
    /\ result' = ParseError_from(collection)
    /\ pc' = "back"
    /\ UNCHANGED <<input, i, collection, calls>>

NextError == IntoParseError \/ FromParseError \/ BackToParseError

SpecError == InitError /\ [][NextError]_vars

---------------------------------------------------------------------------
(* The textual forms of ComponentKind and Control (src/src/enums.rs,       *)
(* src/src/requirements.rs).  `input` is a kind, a text or a <component>   *)
(* element; `result` the text or the outcome of the conversion.            *)

ComponentKinds ==
    {"Runtime", "ConsoleApplication", "DesktopApplication", "WebApplication",
     "InputMethod", "OS", "Theme", "Firmware", "Addon", "Font", "Generic",
     "IconTheme", "Localization", "Driver", "Codec"}

\* ComponentKind::to_string (strum ToString): the `serialize` name of the
\* variant when it has one, else the variant's name in kebab-case.
ComponentKind_to_string(k) ==
    CASE k = "ConsoleApplication" -> "console"
      [] k = "DesktopApplication" -> "desktop"
      [] k = "WebApplication" -> "web-application"
      [] k = "InputMethod" -> "inputmethod"
      [] k = "OS" -> "operating-system"
      [] k = "Runtime" -> "runtime"
      [] k = "Theme" -> "theme"
      [] k = "Firmware" -> "firmware"
      [] k = "Addon" -> "addon"
      [] k = "Font" -> "font"
      [] k = "Generic" -> "generic"
      [] k = "IconTheme" -> "icon-theme"
      [] k = "Localization" -> "localization"
      [] k = "Driver" -> "driver"
      [] k = "Codec" -> "codec"

\* The names Control serializes to (serde rename_all = "kebab-case").
ControlNames ==
    [v \in {"Pointing", "Keyboard", "Console", "Tablet", "Touch", "Gamepad",
            "TvRemote", "Voice", "Vision"} |->
        CASE v = "Pointing" -> "pointing"
          [] v = "Keyboard" -> "keyboard"
          [] v = "Console" -> "console"
          [] v = "Tablet" -> "tablet"
          [] v = "Touch" -> "touch"
          [] v = "Gamepad" -> "gamepad"
          [] v = "TvRemote" -> "tv-remote"
          [] v = "Voice" -> "voice"
          [] v = "Vision" -> "vision"]

\* impl TryFrom<&str> for Control
Control_try_from(string) ==
    CASE string = "pointing" -> Ok("Pointing")
      [] string = "keyboard" -> Ok("Keyboard")
      [] string = "console" -> Ok("Console")
      [] string = "tablet" -> Ok("Tablet")
      [] string = "touch" -> Ok("Touch")
      [] string = "gamepad" -> Ok("Gamepad")
      [] string = "tv-remove" -> Ok("TvRemote")
      [] string = "voice" -> Ok("Voice")
      [] string = "vision" -> Ok("Vision")
      [] OTHER -> Err(InvalidValue(string, "type", "compare"))

\* The texts handed to ComponentKind::from_str ...
KindTexts ==
    {ComponentKind_to_string(k) : k \in ComponentKinds}
    \cup {"console-application", "desktop-application", "webapp",
          "icontheme", "", "Generic", "bogus"}

\* ... and to Control::try_from.
ControlTexts ==
    {ControlNames[v] : v \in DOMAIN ControlNames}
    \cup {"tv-remove", "tv_remote", "TvRemote", "Pointing", "mouse", ""}

\* <component> elements with and without a `type`.
KindDocs ==
    {Elem("component", a, <<idA, nameC>>) :
        a \in OptionalAttr("type", {"", "generic", "desktop", "Generic"})}

InitNames ==
    /\ input \in [form : {"kind"}, value : ComponentKinds]
                 \cup [form : {"text"}, value : KindTexts]
                 \cup [form : {"control"}, value : ControlTexts]
                 \cup [form : {"element"}, value : KindDocs]
    /\ pc = "start"
    /\ i = 1
    /\ collection = NoBuilder
    /\ calls = <<>>
    /\ result = NoResult

\* `kind.to_string()`
KindToString ==
    /\ pc = "start"
    /\ input.form = "kind"
    /\ result' = ComponentKind_to_string(input.value)
    /\ pc' = "text"
    /\ UNCHANGED <<input, i, collection, calls>>

\* `ComponentKind::from_str(..)` of the text just made ...
KindFromString ==
    /\ pc = "text"
    /\ result' = ComponentKind_from_str(result)
    /\ pc' = "kind"
    /\ UNCHANGED <<input, i, collection, calls>>

\* ... and of a given text.
KindFromStr ==
    /\ pc = "start"
    /\ input.form = "text"
    /\ result' = ComponentKind_from_str(input.value)
    /\ pc' = "parsed"
    /\ UNCHANGED <<input, i, collection, calls>>

\* `Component::try_from(&element)`
KindOfComponent ==
    /\ pc = "start"
    /\ input.form = "element"
    /\ result' = Component_try_from(input.value)
    /\ pc' = "component"
    /\ UNCHANGED <<input, i, collection, calls>>

\* `Control::try_from(text)`
ControlTryFrom ==
    /\ pc = "start"
    /\ input.form = "control"
    /\ result' = Control_try_from(input.value)
    /\ pc' = "control"
    /\ UNCHANGED <<input, i, collection, calls>>

NextNames ==
    \/ KindToString
    \/ KindFromString
    \/ KindFromStr
    \/ KindOfComponent
    \/ ControlTryFrom

SpecNames == InitNames /\ [][NextNames]_vars

---------------------------------------------------------------------------
(* Properties of Collection::try_from (under Spec).                        *)

\* The positions of the <component> children of e, in document order.
ComponentPositions(e) ==
    SelectSeq([k \in 1..Len(e.children) |-> k],
              LAMBDA k : IsComponentNode(e.children[k]))

\* The positions of the <component> children whose conversion does not
\* give a Component.
FailingPositions(e) ==
    SelectSeq(ComponentPositions(e),
              LAMBDA k : ~IsOk(Component_try_from(e.children[k])))

\* The <component> positions up to and including position k.
PositionsUpTo(e, k) == SelectSeq(ComponentPositions(e), LAMBDA j : j <= k)

\* C1: for a collection element with a `version`, when some <component>
\* child fails to convert, the call returns exactly the error of the first
\* failing component in document order, and the components converted are
\* those up to and including that one, no later one.
C1_FailFast ==
    (pc = "done" /\ attr(input, "version").some
        /\ FailingPositions(input) # <<>>)
    => /\ IsErr(result)
       /\ result = Component_try_from(
                       input.children[Head(FailingPositions(input))])
       /\ calls = PositionsUpTo(input, Head(FailingPositions(input)))

\* C6: a successful collection conversion returns the conversions of the
\* <component> children, position by position in document order (equal
\* ids are all kept); it succeeds whenever every <component> child
\* converts, whatever other nodes stand between them.
C6_ComponentsInOrder ==
    (pc = "done" /\ attr(input, "version").some)
    => /\ IsOk(result) <=> FailingPositions(input) = <<>>
       /\ IsOk(result) =>
            result.val.components =
                [k \in 1..Len(ComponentPositions(input)) |->
                    Component_try_from(
                        input.children[ComponentPositions(input)[k]]).val]

\* C6 witness: a collection built from two components of the same id with
\* a node that is no component next to them.
C6_Witness ==
    /\ pc = "done"
    /\ IsOk(result)
    /\ Len(result.val.components) = 2
    /\ result.val.components[1].id = result.val.components[2].id
    /\ \E k \in 1..Len(input.children) : ~IsComponentNode(input.children[k])

\* C7: without a `version` attribute the conversion returns
\* MissingAttribute("version", "collection"), and no child is handed to the
\* component converter, whatever the children are.
C7_VersionFirst ==
    ~attr(input, "version").some
    => /\ calls = <<>>
       /\ pc # "loop"
       /\ pc = "done" =>
            result = Err(MissingAttribute("version", "collection"))

\* C7 witness: the version error returned for a collection whose first
\* child is a component that would itself fail.
C7_Witness ==
    /\ pc = "done"
    /\ ~attr(input, "version").some
    /\ Len(input.children) >= 1
    /\ input.children[1] = componentNoId
    /\ result = Err(MissingAttribute("version", "collection"))

---------------------------------------------------------------------------
(* Properties of Component::try_from (under SpecConvert).                  *)

\* The conversion of a <component> has ended.
ComponentDone == pc = "done" /\ input.name = "component"

\* The child elements of e named `name`, in document order.
ChildrenNamed(e, name) ==
    SelectSeq(e.children,
              LAMBDA n : n.kind = "Element" /\ n.name = name)

\* C2, as stated: a <component> without an <id> child gives
\* MissingTag("id") whatever its attributes and other children are.
C2_MissingIdWhateverElse ==
    (ComponentDone /\ ~get_child(input, "id").some)
    => result = Err(MissingTag("id"))

\* C2, amended: a <component> without an <id> child gives MissingTag("id")
\* whatever its children are, unless its `type` attribute names no
\* component kind: the `type` is looked at before the <id>, and the result
\* is then InvalidValue(type, "type", "component").  In neither case does
\* the conversion end abnormally.
C2_MissingIdAfterType ==
    (ComponentDone /\ ~get_child(input, "id").some)
    => result =
         IF attr(input, "type").some
            /\ ~IsOk(ComponentKind_from_str(attr(input, "type").v))
         THEN Err(InvalidValue(attr(input, "type").v, "type", "component"))
         ELSE Err(MissingTag("id"))

\* C2 witness: MissingTag("id") for a component of a known kind that has
\* a name and a content rating but no <id>.
C2_Witness ==
    /\ ComponentDone
    /\ ~get_child(input, "id").some
    /\ attr(input, "type") = Some("desktop")
    /\ ChildrenNamed(input, "name") # <<>>
    /\ ChildrenNamed(input, "content_rating") # <<>>
    /\ result = Err(MissingTag("id"))

\* C3: every Component the conversion returns has a name filled from at
\* least one <name> child; a <component> with an <id> but no <name> is not
\* converted into a Component.
C3_NameRequired ==
    (ComponentDone /\ IsOk(result))
    => /\ ChildrenNamed(input, "name") # <<>>
       /\ ~is_empty(result.val.name)

\* The rank of a content-rating version: oars-1.1 above oars-1.0 above
\* unknown.
VersionRank(version) ==
    CASE version = "Oars1_1" -> 2
      [] version = "Oars1_0" -> 1
      [] OTHER -> 0

\* C4: the content rating of a converted component is the one of its
\* <content_rating> children with the highest version, in whatever order
\* they stand.
C4_HighestRatingKept ==
    (ComponentDone /\ IsOk(result)
        /\ ChildrenNamed(input, "content_rating") # <<>>)
    => LET ratings == ChildrenNamed(input, "content_rating")
           kept == result.val.content_rating
       IN  /\ kept.some
           /\ \E k \in 1..Len(ratings) :
                 kept.v = ContentRating_try_from(ratings[k]).val
           /\ \A k \in 1..Len(ratings) :
                 VersionRank(ContentRating_try_from(ratings[k]).val.version)
                    <= VersionRank(kept.v.version)

\* e without its child elements of unrecognised names (<id> is looked up
\* by name and so counts as recognised).
WithoutUnrecognized(e) ==
    [e EXCEPT !.children =
        SelectSeq(@, LAMBDA n : \/ n.kind # "Element"
                                \/ n.name \in ComponentTags \cup {"id"})]

\* C8: child elements of unrecognised names, wherever they stand among a
\* component's children, do not change the outcome: the result is that of
\* converting the element without them, the same Component or the same
\* failure.
C8_UnrecognizedIgnored ==
    ComponentDone => result = Component_try_from(WithoutUnrecognized(input))

\* C8 witness: a Component converted from an element that has a child of
\* an unrecognised name between recognised ones.
C8_Witness ==
    /\ ComponentDone
    /\ IsOk(result)
    /\ Len(input.children) = 3
    /\ input.children[2] = custom
    /\ input.children[1] # custom
    /\ input.children[3] # custom

---------------------------------------------------------------------------
(* Properties of the order of content-rating versions (under SpecRating).  *)

KnownVersions == {"Oars1_0", "Oars1_1"}

\* C5: Unknown loses to every known version in either position:
\* cmp(Unknown, k) = Less and cmp(k, Unknown) = Greater for k a known
\* version, in both implementations of the order.
C5_UnknownLoses ==
    pc \in {"enums", "content_rating"}
    => LET self == input[calls[1]]
           other == input[calls[2]]
       IN  /\ (self = "Unknown" /\ other \in KnownVersions)
                => result = "Less"
           /\ (self \in KnownVersions /\ other = "Unknown")
                => result = "Greater"

---------------------------------------------------------------------------
(* Properties of the discriminators (under SpecConvert).                   *)

\* The `type` vocabularies of the strict tags that dispatch on `type`.
StrictTypes ==
    [tag \in {"bundle", "firmware", "release", "image", "artifact"} |->
        CASE tag = "bundle" ->
                {"tarball", "snap", "appimage", "limba", "flatpak"}
          [] tag = "firmware" -> FirmwareKindNames
          [] tag = "release" -> ReleaseKindNames
          [] tag = "image" -> ImageKindNames
          [] tag = "artifact" -> ArtifactKindNames]

\* e carries a strict discriminator whose value is outside the vocabulary.
BadStrict(e) ==
    CASE e.name = "content_attribute" ->
            get_text(e).some /\ get_text(e).v \notin ContentStateNames
      [] e.name = "component" ->
            /\ attr(e, "type").some
            /\ ~IsOk(ComponentKind_from_str(attr(e, "type").v))
      [] e.name \in DOMAIN StrictTypes ->
            attr(e, "type").some /\ attr(e, "type").v \notin StrictTypes[e.name]
      [] OTHER -> FALSE

\* The error the claim expects for such an element.
StrictError(e) ==
    IF e.name = "content_attribute"
    THEN InvalidValue(get_text(e).v, "$value", "content-attribute")
    ELSE InvalidValue(attr(e, "type").v, "type", e.name)

\* Everything the converter of e reads before the discriminator is there
\* and valid.
StrictPrefixValid(e) ==
    CASE e.name \in {"bundle", "firmware"} -> get_text(e).some
      [] e.name = "image" ->
            get_text(e).some /\ get_text(e).v \in ValidUrls
      [] e.name = "release" ->
            /\ attr(e, "version").some
            /\ \A a \in {"date", "timestamp", "date_eol"} :
                  attr(e, a).some => deserialize_date(attr(e, a).v).some
      [] OTHER -> TRUE

\* C9: a strict discriminator (component, bundle, firmware, release, image
\* or artifact `type`, content-attribute intensity) with a value outside
\* the vocabulary makes the converter return an error, never a value; the
\* error is InvalidValue(value, attribute, tag) when nothing that the
\* converter reads earlier is wrong.
C9_StrictRejected ==
    (pc = "done" /\ BadStrict(input))
    => /\ IsErr(result)
       /\ StrictPrefixValid(input) => result = Err(StrictError(input))

\* The `type` vocabularies of the permissive tags that dispatch on `type`.
PermissiveTypes ==
    [tag \in {"translation", "content_rating", "launchable", "url", "icon"}
     |->
        CASE tag = "translation" -> {"gettext", "qt"}
          [] tag = "content_rating" -> {"oars-1.0", "oars-1.1"}
          [] tag = "launchable" ->
                {"cockpit-manifest", "desktop-id", "service", "url"}
          [] tag = "url" -> DOMAIN ProjectUrlKinds
          [] tag = "icon" -> {"stock", "cached", "remote", "local"}]

\* e carries a permissive `type` whose value is outside the vocabulary,
\* and a text and children that its converter accepts.
BadPermissive(e) ==
    /\ e.name \in DOMAIN PermissiveTypes
    /\ attr(e, "type").some
    /\ attr(e, "type").v \notin PermissiveTypes[e.name]
    /\ CASE e.name = "icon" -> get_text(e).some
         [] e.name = "url" -> get_text(e).some /\ get_text(e).v \in ValidUrls
         [] e.name = "content_rating" ->
                \A k \in 1..Len(e.children) :
                    IsOk(ContentAttributeStep(<<>>, e.children[k]))
         [] OTHER -> TRUE

\* r is a value holding the fallback variant of the tag.
IsFallback(tag, r) ==
    /\ IsOk(r)
    /\ CASE tag = "content_rating" -> r.val.version = "Unknown"
         [] tag = "icon" -> r.val.variant = "Local"
         [] OTHER -> r.val.variant = "Unknown"

\* The texts of a list element's children, all of them elements with text.
ItemTexts(list) ==
    [k \in 1..Len(list.children) |-> get_text(list.children[k]).v]

\* A converted component kept every text of its <categories> or <kudos>
\* list, the names outside the vocabulary as the Unknown variant.
UnknownItemsKept(list, names, items) ==
    /\ Len(items) = Len(list.children)
    /\ \A k \in 1..Len(items) :
          ItemTexts(list)[k] \notin names
            => items[k] = VariantOf("Unknown", ItemTexts(list)[k])

\* C10: a permissive discriminator (category, kudo, translation,
\* content_rating, launchable, url or icon type) with a value outside the
\* vocabulary never makes the converter fail: the result holds the tag's
\* fallback variant.
C10_PermissiveFallback ==
    /\ (pc = "done" /\ BadPermissive(input))
         => IsFallback(input.name, result)
    /\ (ComponentDone /\ input \in ListedDocs
            /\ \A k \in 1..Len(input.children[3].children) :
                  input.children[3].children[k] # blank)
         => /\ IsOk(result)
            /\ UnknownItemsKept(input.children[3], CategoryNames,
                                result.val.categories)
                 \/ UnknownItemsKept(input.children[3], KudoNames,
                                     result.val.kudos)

---------------------------------------------------------------------------
(* Properties of the leaf converters (under SpecConvert).                  *)

\* The variant an <icon>'s `type` selects, `local` when there is none.
IconVariantOf(e) ==
    CASE attr(e, "type") = Some("stock") -> "Stock"
      [] attr(e, "type") = Some("cached") -> "Cached"
      [] attr(e, "type") = Some("remote") -> "Remote"
      [] attr(e, "type") \in {None, Some("local")} -> "Local"
      [] OTHER -> "Other"

\* A dimension of a converted icon mirrors its attribute: absent with it,
\* and otherwise the number the attribute spells.
DimensionMirrors(e, name, dimension) ==
    /\ dimension.some <=> attr(e, name).some
    /\ attr(e, name).some => dimension = parse_unsigned(attr(e, name).v, 32)

\* C11: an <icon> is dispatched on `type`, `local` when there is none: no
\* `type` gives Icon::Local with the element text as its path, `remote`
\* gives Icon::Remote with the parsed URL (when the text is one), `stock`
\* and `cached` give Stock and Cached; the width and the height of the
\* result are absent exactly when their attributes are.
C11_IconDispatch ==
    (pc = "done" /\ input.name = "icon" /\ IconVariantOf(input) # "Other"
        /\ (IconVariantOf(input) = "Remote" /\ get_text(input).some
                => get_text(input).v \in ValidUrls))
    => /\ IsOk(result)
       /\ result.val.variant = IconVariantOf(input)
       /\ CASE IconVariantOf(input) = "Stock" ->
                    result.val.value = get_text(input)
            [] IconVariantOf(input) = "Remote" ->
                    /\ result.val.value.v.url
                          = Some(Url_parse(get_text(input).v).val)
                    /\ DimensionMirrors(input, "width",
                                        result.val.value.v.width)
                    /\ DimensionMirrors(input, "height",
                                        result.val.value.v.height)
            [] OTHER ->
                    /\ result.val.value.v.path = get_text(input)
                    /\ DimensionMirrors(input, "width",
                                        result.val.value.v.width)
                    /\ DimensionMirrors(input, "height",
                                        result.val.value.v.height)

\* C12: a <bundle> without `type` gives MissingAttribute("type", "bundle");
\* a flatpak bundle without `sdk` gives MissingAttribute("sdk", "bundle");
\* with `sdk` it gives Flatpak, whose reference is the element text, whose
\* sdk is the attribute and whose runtime is the `runtime` attribute,
\* absent with it.
C12_BundleAttributes ==
    (pc = "done" /\ input.name = "bundle")
    => /\ ~attr(input, "type").some
            => result = Err(MissingAttribute("type", "bundle"))
       /\ (attr(input, "type") = Some("flatpak")
                /\ ~attr(input, "sdk").some)
            => result = Err(MissingAttribute("sdk", "bundle"))
       /\ (attr(input, "type") = Some("flatpak") /\ attr(input, "sdk").some)
            => /\ IsOk(result)
               /\ result.val.variant = "Flatpak"
               /\ Some(result.val.value.v.reference) = get_text(input)
               /\ Some(result.val.value.v.sdk) = attr(input, "sdk")
               /\ result.val.value.v.runtime = attr(input, "runtime")

\* C13: a <launchable>, a <url> or a <translation> without the `type`
\* attribute is not converted: its converter returns an error, no value.
C13_TypeMandatory ==
    (pc = "done" /\ input.name \in {"launchable", "url", "translation"}
        /\ ~attr(input, "type").some)
    => IsErr(result)

\* C14: an <artifact> without the `type` attribute, or without a
\* <location> child, gives a returned error, neither an Artifact nor an
\* abnormal end; every Artifact returned has its kind from `type` and its
\* URL from <location>.
C14_ArtifactRequired ==
    (pc = "done" /\ input.name = "artifact")
    => /\ (~attr(input, "type").some \/ ~get_child(input, "location").some)
            => IsErr(result)
       /\ IsOk(result)
            => /\ Some(result.val.kind) = attr(input, "type")
               /\ Ok(result.val.url)
                    = Url_parse(get_text(get_child(input, "location").v).v)

---------------------------------------------------------------------------
(* Properties of Release::try_from (under SpecConvert).                    *)

\* The date-like attributes of a <release>.
DateAttributes == {"date", "timestamp", "date_eol"}

\* The instant each date-like text of the documents stands for, in seconds
\* since the epoch: the number itself for a timestamp, midnight UTC of the
\* day for a calendar date; the other texts stand for none.
InstantOf(v) ==
    CASE v = "1397253600" -> Some(1397253600)
      [] v = "0" -> Some(0)
      [] v = "2012-08-26" -> Some(1345939200)
      [] v = "1970-01-02" -> Some(86400)
      [] OTHER -> None

\* The instant of attribute a of e; none when e does not carry it.
InstantOfAttr(e, a) ==
    IF attr(e, a).some THEN InstantOf(attr(e, a).v) ELSE None

\* The date-like attributes of e whose value stands for no instant.
BadDates(e) ==
    {a \in DateAttributes : attr(e, a).some /\ ~InstantOf(attr(e, a).v).some}

\* e without the attributes named in `names`.
WithoutAttrs(e, names) ==
    [e EXCEPT !.attributes = [a \in DOMAIN @ \ names |-> @[a]]]

\* A release whose other attributes are accepted and whose children
\* convert.
ReleaseDone ==
    /\ pc = "done" /\ input.name = "release"
    /\ attr(input, "version").some
    /\ attr(input, "type").some => attr(input, "type").v \in ReleaseKindNames
    /\ IsOk(Release_try_from(WithoutAttrs(input, DateAttributes)))

\* C15: a value of `date`, `timestamp` or `date_eol` that is a Unix
\* timestamp resolves to that instant, one that is a calendar date to
\* midnight UTC of that day, and any other makes the conversion fail with
\* InvalidValue(value, attribute, "release"); a release with none of the
\* three has no date and no end-of-life date.
C15_DateResolution ==
    ReleaseDone
    => IF BadDates(input) # {}
       THEN \E a \in BadDates(input) :
              result = Err(InvalidValue(attr(input, a).v, a, "release"))
       ELSE /\ IsOk(result)
            /\ result.val.date_eol = InstantOfAttr(input, "date_eol")
            /\ result.val.date \in {InstantOfAttr(input, a) :
                                        a \in {"date", "timestamp"}}
            /\ result.val.date.some
                  <=> (attr(input, "date").some
                        \/ attr(input, "timestamp").some)

\* C15 witness: a release whose `date` is a calendar date and whose
\* `date_eol` is a timestamp, both resolved.
C15_Witness ==
    /\ ReleaseDone
    /\ attr(input, "date") = Some("2012-08-26")
    /\ ~attr(input, "timestamp").some
    /\ attr(input, "date_eol") = Some("0")
    /\ IsOk(result)
    /\ result.val.date = Some(1345939200)
    /\ result.val.date_eol = Some(0)

---------------------------------------------------------------------------
(* Properties of the locale-keyed texts (under SpecText).                  *)

\* The positions of the siblings that carry a locale, and of those that
\* carry none.
Tagged(list) == {k \in 1..Len(list) : attr(list[k], "lang").some}
Untagged(list) == {k \in 1..Len(list) : ~attr(list[k], "lang").some}

\* The locales are pairwise distinct and at most one sibling has none.
DistinctLocales(list) ==
    /\ \A j, k \in Tagged(list) :
          attr(list[j], "lang") = attr(list[k], "lang") => j = k
    /\ Cardinality(Untagged(list)) <= 1

\* The text a sibling contributes: its text for a TranslatableString, its
\* content as markup for a MarkupTranslatableString.
Contribution(e) ==
    IF pc = "markup" THEN element_to_xml(e)
    ELSE unwrap_or_default(get_text(e))

\* The map has one entry per sibling, each tagged text under its locale
\* and the untagged one under "C".
OneEntryEach(list, map) ==
    /\ Cardinality(DOMAIN map) = Len(list)
    /\ \A k \in Tagged(list) :
          /\ attr(list[k], "lang").v \in DOMAIN map
          /\ map[attr(list[k], "lang").v] = Contribution(list[k])
    /\ \A k \in Untagged(list) :
          /\ "C" \in DOMAIN map
          /\ map["C"] = Contribution(list[k])

\* C16, as stated: N siblings with pairwise distinct locales, plus at most
\* one sibling without a locale, give a map of exactly N (or N + 1)
\* entries, each text under its own locale, the untagged one under "C".
C16_OneEntryPerSibling ==
    (pc \in {"string", "markup"} /\ DistinctLocales(input))
    => OneEntryEach(input, result.val)

\* C16, amended: the same, provided that no sibling carries the locale "C"
\* next to a sibling without a locale: the two share the key "C", and the
\* later one replaces the earlier.
C16_OneEntryPerKey ==
    (pc \in {"string", "markup"} /\ DistinctLocales(input)
        /\ (Untagged(input) # {}
                => \A k \in Tagged(input) : attr(input[k], "lang").v # "C"))
    => OneEntryEach(input, result.val)

\* C16 witness: a markup text fed with an untagged sibling and two
\* siblings of distinct locales holds three entries.
C16_Witness ==
    /\ pc = "markup"
    /\ DistinctLocales(input)
    /\ Cardinality(Tagged(input)) = 2
    /\ Cardinality(Untagged(input)) = 1
    /\ DOMAIN result.val = {"C", "de", "fr"}

---------------------------------------------------------------------------
(* Properties of Component::try_from and the builder (under SpecConvert).  *)

RequirementKind(e) ==
    CASE e.name = "id" -> "AppId"
      [] e.name = "control" -> "Control"
      [] e.name = "display_length" -> "DisplayLength"
      [] OTHER -> "Other"

\* C18: the element children of <requires>, <recommends> and <supports>
\* become Requirement values, stored in document order in the component's
\* list of the same name.
C18_RelationsStored ==
    (ComponentDone /\ input \in RelationDocs)
    => /\ IsOk(result)
       /\ LET rel == input.children[3]
              stored == result.val[rel.name]
          IN  /\ Len(stored) = Len(rel.children)
              /\ \A k \in 1..Len(stored) :
                    stored[k].variant = RequirementKind(rel.children[k])

---------------------------------------------------------------------------
(* Properties of Collection::find_by_id (under SpecFind).                  *)

\* The positions of the components whose id is `id` or `id` + ".desktop".
MatchingPositions(self, id) ==
    {k \in 1..Len(self.components) :
        self.components[k].id \in {id, id \o ".desktop"}}

\* C19: find_by_id(id) returns exactly the components whose id is `id` or
\* `id` followed by ".desktop", each once and in collection order (none
\* when none matches), and leaves the collection as it was.
C19_FindById ==
    pc = "done"
    => /\ Len(result)
            = Cardinality(MatchingPositions(input.collection, input.id))
       /\ \E at \in [1..Len(result) ->
                       MatchingPositions(input.collection, input.id)] :
             /\ \A j, k \in 1..Len(result) : j < k => at[j] < at[k]
             /\ \A j \in 1..Len(result) :
                   result[j] = input.collection.components[at[j]]
       /\ collection = input.collection

\* C19 witness: a search that finds a component of the id asked for after
\* one of that id with ".desktop", and passes over a third component.
C19_Witness ==
    /\ pc = "done"
    /\ input.id = "org.example.a"
    /\ Len(collection.components) = 3
    /\ Len(result) = 2
    /\ result[1].id = "org.example.a.desktop"
    /\ result[2].id = "org.example.a"

---------------------------------------------------------------------------
(* Properties of Screenshot::try_from (under SpecConvert).                 *)

\* e without its attributes.
WithoutAttributes(e) == [e EXCEPT !.attributes = NoAttrs]

\* C20: a converted screenshot is the default one exactly when its `type`
\* attribute is there and equals "default"; no value of `type` makes the
\* conversion fail: it succeeds whenever it does without the attribute.
C20_DefaultScreenshot ==
    (pc = "done" /\ input.name = "screenshot")
    => /\ IsOk(result) <=> IsOk(Screenshot_try_from(WithoutAttributes(input)))
       /\ IsOk(result)
            => (result.val.is_default <=> attr(input, "type") = Some("default"))

\* C20 witness: a screenshot of type "default" with one image is converted
\* and is the default one.
C20_Witness ==
    /\ pc = "done" /\ input.name = "screenshot"
    /\ attr(input, "type") = Some("default")
    /\ IsOk(result)
    /\ result.val.is_default
    /\ Len(result.val.images) = 1

---------------------------------------------------------------------------
(* The order of content-rating versions as an order (under SpecRating).    *)

\* Ordering::reverse
Reverse(ordering) ==
    CASE ordering = "Less" -> "Greater"
      [] ordering = "Greater" -> "Less"
      [] OTHER -> "Equal"

\* The comparison the step named by pc applied.
CmpOf(step, self, other) ==
    IF step = "enums" THEN ContentRatingVersion_cmp(self, other)
    ELSE content_rating_cmp(self, other)

\* C21: each cmp is a consistent total order: cmp(a, a) = Equal, cmp(a, b)
\* is the reverse of cmp(b, a), and a < b and b < c give a < c.
C21_TotalOrder ==
    pc \in {"enums", "content_rating"}
    => LET self == input[calls[1]]
           other == input[calls[2]]
       IN  /\ self = other => result = "Equal"
           /\ result = Reverse(CmpOf(pc, other, self))
           /\ \A third \in ContentRatingVersions :
                 (result = "Less" /\ CmpOf(pc, other, third) = "Less")
                    => CmpOf(pc, self, third) = "Less"

---------------------------------------------------------------------------
(* Propagation of a child's failure by the assemblers (under SpecConvert). *)

Assemblers ==
    {"component", "release", "artifact", "screenshot", "content_rating"}

\* What the walk of assembler e does with one child on its own: the turn of
\* e's loop for that child, from the accumulator the walk starts with.
ChildOutcome(e, node) ==
    CASE e.name = "component" ->
            ComponentStep(ComponentAcc(ComponentBuilder_default), node)
      [] e.name = "release" ->
            ReleaseStep([release |-> ReleaseBuilder_new(""),
                         description |-> EmptyMap], node)
      [] e.name = "artifact" -> ArtifactStep(ArtifactBuilder_default, node)
      [] e.name = "screenshot" ->
            ScreenshotStep([images |-> <<>>, videos |-> <<>>,
                            caption |-> EmptyMap], node)
      [] e.name = "content_rating" -> ContentAttributeStep(<<>>, node)

\* The positions of the children of e whose conversion fails.
FailingChildren(e) ==
    SelectSeq([k \in 1..Len(e.children) |-> k],
              LAMBDA k : ~IsOk(ChildOutcome(e, e.children[k])))

\* The assembler gets as far as walking its children: what it reads from
\* the element itself before the walk is there and valid.
WalkReached(e) ==
    CASE e.name = "component" ->
            IsOk(ComponentKindOf(e)) /\ IsOk(ComponentId(e))
      [] e.name = "release" ->
            IsOk(Release_try_from([e EXCEPT !.children = <<>>]))
      [] e.name = "artifact" ->
            IsOk(OptionalKind(e, "type", ArtifactKindNames, "artifact"))
      [] OTHER -> TRUE

\* C22: when a child of an assembler fails to convert, the assembler
\* returns the error of the first such child in document order, unchanged:
\* no entity is returned, and a later sibling has no say.
C22_FirstFailurePropagates ==
    (pc = "done" /\ input.name \in Assemblers /\ WalkReached(input)
        /\ FailingChildren(input) # <<>>)
    => /\ IsErr(result)
       /\ result = ChildOutcome(input,
                                input.children[Head(FailingChildren(input))])

---------------------------------------------------------------------------
(* Absent and malformed values in the leaf converters (under SpecConvert). *)

\* The elements converted on their own whose text content is required.
RequiredTextTags ==
    {"icon", "bundle", "launchable", "translation", "url", "image",
     "firmware", "binary", "library"}

\* C23: an element whose required text is absent makes its converter
\* return an error: it neither converts (with some default text) nor
\* terminates abnormally.  The same holds of a component whose <id> child
\* has no text.
C23_AbsentTextIsError ==
    pc = "done"
    => /\ (input.name \in RequiredTextTags /\ ~get_text(input).some)
            => IsErr(result)
       /\ (input.name = "component" /\ get_child(input, "id").some
              /\ ~get_text(get_child(input, "id").v).some)
            => IsErr(result)


\* The numeric attributes of an element, in the order its converter reads
\* them.
NumericAttributes == <<"width", "height">>

\* The numeric attributes of e that are there and do not spell a u32.
BadNumbers(e) ==
    SelectSeq(NumericAttributes,
              LAMBDA a : attr(e, a).some
                         /\ ~parse_unsigned(attr(e, a).v, 32).some)

\* e without its numeric attributes.
WithoutNumbers(e) ==
    [e EXCEPT !.attributes =
        [a \in DOMAIN @ \ {"width", "height"} |-> @[a]]]

\* The converter of an icon or an image.
SizedOutcome(e) ==
    IF e.name = "icon" THEN Icon_try_from(e) ELSE Image_try_from(e)

\* C24: a numeric value that is there and is not an unsigned integer of
\* the field's width makes the converter return InvalidValue naming it:
\* the `width` or `height` of an icon or an image that converts without
\* them (32 bits), and the text of a download or installed size (64 bits).
C24_BadNumberIsError ==
    pc = "done"
    => /\ (input.name \in {"icon", "image"}
              /\ IsOk(SizedOutcome(WithoutNumbers(input)))
              /\ BadNumbers(input) # <<>>)
            => result = Err(InvalidValue(attr(input,
                                              Head(BadNumbers(input))).v,
                                         Head(BadNumbers(input)),
                                         input.name))
       /\ (input.name = "size" /\ get_text(input).some
              /\ attr(input, "type").some
              /\ attr(input, "type").v \in {"download", "installed"}
              /\ ~parse_unsigned(get_text(input).v, 64).some)
            => result = Err(InvalidValue(get_text(input).v,
                                         attr(input, "type").v, "size"))

---------------------------------------------------------------------------
(* `timestamp` as an alias of `date` (under SpecConvert).                  *)

\* e with its `timestamp` attribute renamed to `date`.
TimestampAsDate(e) ==
    [e EXCEPT !.attributes =
        [a \in DOMAIN @ \ {"timestamp"} |-> @[a]]
            @@ ("date" :> @["timestamp"])]

\* C25: a release with only `timestamp` gets the date a release with that
\* value as its `date` gets (and converts exactly when that one does); when
\* both are there and valid the date is the one of `timestamp`; `date_eol`
\* does not change the date, and `date` and `timestamp` do not change the
\* end-of-life date.
C25_TimestampAlias ==
    ReleaseDone
    => /\ (attr(input, "timestamp").some /\ ~attr(input, "date").some)
            => LET other == Release_try_from(TimestampAsDate(input))
               IN  /\ IsOk(result) <=> IsOk(other)
                   /\ IsOk(result) => result.val.date = other.val.date
       /\ (attr(input, "timestamp").some /\ attr(input, "date").some
              /\ BadDates(input) = {})
            => /\ IsOk(result)
               /\ result.val.date = InstantOfAttr(input, "timestamp")
       /\ IsOk(result)
            => LET no_eol == Release_try_from(
                                 WithoutAttrs(input, {"date_eol"}))
                   only_eol == Release_try_from(
                                   WithoutAttrs(input, {"date", "timestamp"}))
               IN  /\ IsOk(no_eol) /\ no_eol.val.date = result.val.date
                   /\ IsOk(only_eol)
                   /\ only_eol.val.date_eol = result.val.date_eol

\* C25 witness: a release with a `date` and a different `timestamp`, both
\* valid, and a `date_eol`: its date is the one of `timestamp`.
C25_Witness ==
    /\ ReleaseDone
    /\ attr(input, "date") = Some("2012-08-26")
    /\ attr(input, "timestamp") = Some("1397253600")
    /\ attr(input, "date_eol") = Some("1970-01-02")
    /\ IsOk(result)
    /\ result.val.date = Some(1397253600)
    /\ result.val.date_eol = Some(86400)

---------------------------------------------------------------------------
(* Accumulation of keywords per locale (under SpecText).                   *)

\* The key an element is stored under: its locale, or "C" without one.
LocaleKey(e) == IF attr(e, "lang").some THEN attr(e, "lang").v ELSE "C"

\* The texts of the elements of `list` stored under `key`, in document
\* order.
TextsUnder(list, key) ==
    LET hits == SelectSeq(list, LAMBDA e : LocaleKey(e) = key)
    IN  [k \in 1..Len(hits) |-> unwrap_or_default(get_text(hits[k]))]

\* C26: after a list is fed a sequence of elements, its keys are the
\* locales of the elements ("C" for those without one), and under each key
\* stand the texts of the elements of that locale, in document order,
\* duplicates kept.
C26_KeywordsInOrder ==
    pc = "list"
    => /\ IsOk(result)
       /\ DOMAIN result.val = {LocaleKey(input[k]) : k \in 1..Len(input)}
       /\ \A key \in DOMAIN result.val :
             result.val[key] = TextsUnder(input, key)

\* C26 witness: two elements of one locale with different texts, one of
\* another locale between them: the first locale's list holds the two
\* texts in document order.
C26_Witness ==
    /\ pc = "list"
    /\ Len(input) = 3
    /\ LocaleKey(input[1]) = "de" /\ LocaleKey(input[3]) = "de"
    /\ LocaleKey(input[2]) # "de"
    /\ get_text(input[1]) = Some("Programm")
    /\ get_text(input[3]) = Some("Anwendung")
    /\ result.val["de"] = <<"Programm", "Anwendung">>

---------------------------------------------------------------------------
(* The bundles of an artifact (under SpecConvert).                         *)

\* C27: a converted artifact holds the conversions of its <bundle>
\* children, in document order; an artifact with a <bundle> child that
\* does not convert is not converted.
C27_ArtifactBundles ==
    (pc = "done" /\ input.name = "artifact")
    => LET bundles == ChildrenNamed(input, "bundle")
       IN  /\ IsOk(result)
                => result.val.bundles =
                     [k \in 1..Len(bundles) |->
                         Bundle_try_from(bundles[k]).val]
           /\ (\E k \in 1..Len(bundles) : ~IsOk(Bundle_try_from(bundles[k])))
                => ~IsOk(result)

---------------------------------------------------------------------------
(* Properties of the error conversions (under SpecError).                  *)

\* C28: the conversion of a CollectionParseError into a ParseError does
\* not terminate abnormally, whatever the `errors` list holds, and returns
\* the first error of a list that has one; a ParseError made into a
\* CollectionParseError gives exactly one error and no partial collection,
\* and converting that back returns the original error.
C28_ErrorConversions ==
    /\ pc = "into"
        => /\ ~IsPanic(result)
           /\ Len(input.value.errors) > 0
                => result = Ok(input.value.errors[1].error)
    /\ pc \in {"from", "back"}
        => /\ Len(collection.errors) = 1
           /\ collection.errors[1].error = input.value
           /\ ~collection.partial_collection.some
    /\ pc = "back" => result = Ok(input.value)

---------------------------------------------------------------------------
(* Properties of the textual forms (under SpecNames).                      *)

\* C29: a ComponentKind written out and read back is the same kind; a
\* component element with no `type`, or with `type` empty or "generic",
\* gets the kind Generic.
C29_KindRoundTrip ==
    /\ pc = "kind" => result = Ok(input.value)
    /\ (pc = "component"
          /\ (attr(input.value, "type").some
                 => attr(input.value, "type").v \in {"", "generic"}))
        => IsOk(result) /\ result.val.kind = "Generic"

\* C30: Control::try_from succeeds exactly for the nine names the type
\* serializes to, each giving its own variant, and returns InvalidValue for
\* every other text.
C30_ControlNames ==
    pc = "control"
    => IF \E v \in DOMAIN ControlNames : ControlNames[v] = input.value
       THEN IsOk(result) /\ ControlNames[result.val] = input.value
       ELSE IsErr(result) /\ result.err.kind = "InvalidValue"

=============================================================================
